---- MODULE Spec2Model ----
(***************************************************************************)
(* Model of the libfds IPFIX field converters                              *)
(* (include/libfds/converters.h, src/converters/converters.c).             *)
(*                                                                         *)
(* The converters are functions over caller-owned buffers.  Each one is an *)
(* operator that returns the return code together with the bytes or the    *)
(* value it leaves behind, and an action that applies it to the state.     *)
(*                                                                         *)
(* A 64-bit host value (uint64_t, or int64_t in two's complement) is a     *)
(* sequence of 8 bytes, most significant byte first; narrower values are   *)
(* shorter sequences.  A memory image is a sequence of bytes in address    *)
(* order.  TLC's integers are 32 bits wide, so the 64-bit arithmetic of    *)
(* the code is carried out on the bytes.                                   *)
(***************************************************************************)
EXTENDS Integers, Sequences, FiniteSets, TLC

VARIABLES
    little,     \* byte order of the host: TRUE little endian, FALSE big endian
    pc,         \* "start", "encoded" (a setter has run), "decoded" (a getter has run)
    op_set,     \* the setter that has run, "none" before
    op_get,     \* the getter that has run, "none" before
    field,      \* the data field of the record (wire bytes, address order)
    field0,     \* the field as it was before the first call
    size,       \* the size argument of the calls
    type,       \* the element type argument of the timestamp calls
    in_value,   \* the value argument of the integer and low precision setters
    in_ts,      \* the struct timespec argument of the high precision setter
    rc_set,     \* return code of the setter
    rc_get,     \* return code of the getter
    value,      \* *value of the integer and low precision getters
    ts,         \* *ts of the high precision getter
    tz,         \* offset of the local time zone of the host from UTC, in minutes
    str,        \* the output character buffer of the renderers (str_size bytes)
    str_size,   \* the size of the output buffer
    fmt,        \* the format selector of the timestamp renderer
    op_str,     \* the renderer that has run, "none" before
    rc_str,     \* result of the renderer: [rc, len], len the returned length
    rc_chk,     \* return code of fds_string_utf8check on the field
    rc_chk_out, \* return code of fds_string_utf8check on the rendered text
    mem_str,    \* the memory accesses of the last run of fds_string2str
    mem_chk     \* the memory accesses of the last run of fds_string_utf8check

vars == <<little, pc, op_set, op_get, field, field0, size, type, in_value, in_ts,
          rc_set, rc_get, value, ts,
          tz, str, str_size, fmt, op_str, rc_str, rc_chk, rc_chk_out, mem_str, mem_chk>>

\* The variables of the renderers, which the setters and getters leave alone
textvars == <<tz, str, str_size, fmt, op_str, rc_str, rc_chk, rc_chk_out, mem_str, mem_chk>>

\* A run that has not started: the indices of the input bytes read and of
\* the output bytes written, the steps of the scan, its position, and
\* whether its loop has ended
NoAccess == [reads |-> {}, writes |-> {}, steps |-> <<>>, pos |-> 0, ended |-> FALSE]

\* No renderer has run and none will: the state of the renderers in the
\* specifications of the setters and getters
TextIdle ==
    /\ tz = 0
    /\ str = <<>>
    /\ str_size = 0
    /\ fmt = 0
    /\ op_str = "none"
    /\ rc_str = [rc |-> "none", len |-> 0]
    /\ rc_chk = "none"
    /\ rc_chk_out = "none"
    /\ mem_str = NoAccess
    /\ mem_chk = NoAccess

(***************************************************************************)
(* Return codes (libfds/api.h)                                             *)
(***************************************************************************)
FDS_OK == "FDS_OK"
FDS_ERR_ARG == "FDS_ERR_ARG"
FDS_ERR_TRUNC == "FDS_ERR_TRUNC"

(***************************************************************************)
(* Fixed-width unsigned arithmetic on byte sequences                       *)
(***************************************************************************)
Byte == 0..255

Pow2(k) == 2 ^ k

\* A function over 1..n as a tuple, so that TLC computes its elements once
AsSeq(f) == f \o <<>>

Rep(b, n) == AsSeq([i \in 1..n |-> b])

Rev(s) == AsSeq([i \in 1..Len(s) |-> s[Len(s) + 1 - i]])

\* The w-byte value of a number 0 <= n < 2^31
FromInt(n, w) ==
    AsSeq([i \in 1..w |-> IF w - i >= 4 THEN 0 ELSE (n \div Pow2(8 * (w - i))) % 256])

\* The number of a value below 2^31
ToInt(x) ==
    LET w == Len(x)
        d(j) == IF j < w THEN x[w - j] ELSE 0
    IN  d(0) + 256 * d(1) + 65536 * d(2) + 16777216 * d(3)

FitsInt(x) ==
    LET w == Len(x)
    IN  /\ \A i \in 1..w : (w - i >= 4) => x[i] = 0
        /\ (w >= 4 => x[w - 3] < 128)

\* Conversions between widths: truncation keeps the low bytes
Trunc(x, w) == SubSeq(x, Len(x) - w + 1, Len(x))

ZExt(x, w) == Rep(0, w - Len(x)) \o x

SExtAsUnsigned(x, w) == Rep(0, w - Len(x)) \o x

SExt(x, w) == Rep(IF x[1] >= 128 THEN 255 ELSE 0, w - Len(x)) \o x

\* Unsigned and signed (two's complement) order of values of one width
RECURSIVE LexLt(_, _, _)
LexLt(x, y, i) ==
    IF i > Len(x) THEN FALSE
    ELSE IF x[i] # y[i] THEN x[i] < y[i]
    ELSE LexLt(x, y, i + 1)

ULt(x, y) == LexLt(x, y, 1)

ULe(x, y) == ~ULt(y, x)

SLt(x, y) ==
    LET nx == x[1] >= 128
        ny == y[1] >= 128
    IN  IF nx # ny THEN nx ELSE LexLt(x, y, 1)

SLe(x, y) == ~SLt(y, x)

\* ~x
Not(x) == AsSeq([i \in 1..Len(x) |-> 255 - x[i]])

\* x & y
AndByte(a, b) ==
    LET bit(v, k) == (v \div Pow2(k)) % 2
        term(k) == bit(a, k) * bit(b, k) * Pow2(k)
    IN  term(0) + term(1) + term(2) + term(3) + term(4) + term(5) + term(6) + term(7)

And(x, y) == AsSeq([i \in 1..Len(x) |-> AndByte(x[i], y[i])])

\* x + y modulo 2^(8w)
RECURSIVE AddCarry(_, _, _)
AddCarry(x, y, i) ==
    IF i = Len(x) THEN (x[i] + y[i]) \div 256
    ELSE (x[i] + y[i] + AddCarry(x, y, i + 1)) \div 256

Add(x, y) ==
    AsSeq([i \in 1..Len(x) |->
        (x[i] + y[i] + (IF i = Len(x) THEN 0 ELSE AddCarry(x, y, i + 1))) % 256])

\* x - y modulo 2^(8w)
Sub(x, y) == Add(Add(x, Not(y)), FromInt(1, Len(x)))

\* x << n and x >> n (logical), 0 <= n < 8w
Shl(x, n) ==
    LET w == Len(x)
        m == n \div 8
        k == n % 8
        b(i) == IF i + m <= w THEN x[i + m] ELSE 0
    IN  AsSeq([i \in 1..w |-> ((b(i) * Pow2(k)) % 256) + (b(i + 1) \div Pow2(8 - k))])

Shr(x, n) ==
    LET w == Len(x)
        m == n \div 8
        k == n % 8
        b(i) == IF i - m >= 1 THEN x[i - m] ELSE 0
    IN  AsSeq([i \in 1..w |-> (b(i) \div Pow2(k)) + ((b(i - 1) % Pow2(k)) * Pow2(8 - k))])

\* x * y modulo 2^(8w)
RECURSIVE ColSum(_, _, _, _)
ColSum(x, y, j, a) ==
    \* sum of the digit products of weight 256^j, from digit a of x on
    LET w == Len(x) IN
    IF a > j THEN 0
    ELSE x[w - a] * y[w - (j - a)] + ColSum(x, y, j, a + 1)

RECURSIVE MulCarry(_, _, _)
MulCarry(x, y, j) ==
    \* carry into the digit of weight 256^j
    IF j = 0 THEN 0
    ELSE (ColSum(x, y, j - 1, 0) + MulCarry(x, y, j - 1)) \div 256

Mul(x, y) ==
    LET w == Len(x)
    IN  AsSeq([i \in 1..w |-> (ColSum(x, y, w - i, 0) + MulCarry(x, y, w - i)) % 256])

\* x / d and x % d for a divisor 0 < d < 2^23, by long division byte by byte:
\* the remainder of the top i bytes of x
RECURSIVE RemTop(_, _, _)
RemTop(x, d, i) ==
    IF i = 0 THEN 0 ELSE (256 * RemTop(x, d, i - 1) + x[i]) % d

DivSmall(x, d) == AsSeq([i \in 1..Len(x) |-> (256 * RemTop(x, d, i - 1) + x[i]) \div d])

ModSmall(x, d) == FromInt(RemTop(x, d, Len(x)), Len(x))

\* x / d and x % d for the divisors of the converters (1000, 10^6, 10^9).  A
\* divisor of 2^23 or more is a multiple of 1000 and is divided out in two
\* steps, (x / 1000) / (d / 1000), which is the same quotient.
Div(x, d) ==
    IF d < 8388608 THEN DivSmall(x, d)
    ELSE DivSmall(DivSmall(x, 1000), d \div 1000)

Mod(x, d) == ModSmall(x, d)

(***************************************************************************)
(* Byte order of the host.  The header accepts little and big endian       *)
(* builds; a conversion to or from network byte order swaps the bytes of   *)
(* a value on the first and is the identity on the second.                 *)
(***************************************************************************)
\* The bytes of a host value in memory, and the host value of bytes in memory
MemOf(x) == IF little THEN Rev(x) ELSE x

ValOf(m) == IF little THEN Rev(m) ELSE m

htobe64NoSwap(x) == x

htobe64(x) == IF little THEN Rev(x) ELSE x

be64toh(x) == IF little THEN Rev(x) ELSE x

htonl(x) == IF little THEN Rev(x) ELSE x

ntohl(x) == IF little THEN Rev(x) ELSE x

htons(x) == IF little THEN Rev(x) ELSE x

ntohs(x) == IF little THEN Rev(x) ELSE x

\* memcpy(field, bytes, Len(bytes)), and *(T *) field = v: the bytes beyond stay
Store(f, bytes) == AsSeq([i \in 1..Len(f) |-> IF i <= Len(bytes) THEN bytes[i] ELSE f[i]])

\* *(const T *) field for a T of w bytes
Load(f, w) == ValOf(SubSeq(f, 1, w))

(***************************************************************************)
(* Limits of <stdint.h>, as 64-bit values                                  *)
(***************************************************************************)
UINT8_MAX == ZExt(Rep(255, 1), 8)
UINT16_MAX == ZExt(Rep(255, 2), 8)
UINT32_MAX == ZExt(Rep(255, 4), 8)
UINT64_MAX == Rep(255, 8)
INT8_MAX == ZExt(<<127>>, 8)
INT8_MIN == SExt(<<128>>, 8)
INT16_MAX == ZExt(<<127, 255>>, 8)
INT16_MIN == SExt(<<128, 0>>, 8)
INT32_MAX == ZExt(<<127, 255, 255, 255>>, 8)
INT32_MIN == SExt(<<128, 0, 0, 0>>, 8)
INT64_MAX == <<127, 255, 255, 255, 255, 255, 255, 255>>

(***************************************************************************)
(* Integer setters and getters.  A setter returns the return code and the  *)
(* field it leaves; a getter returns the return code and *value, which is  *)
(* `old` where the code does not assign it.                                *)
(***************************************************************************)
\* size == 0 || size > 8U
InvalidIntSizeNoZero(sz) == sz > 8

InvalidIntSize(sz) == sz = 0 \/ sz > 8

\* 1ULL << (size * 8U)
UintOverLimitOff(sz) == Sub(Shl(FromInt(1, 8), sz * 8), FromInt(1, 8))

UintOverLimit(sz) == Shl(FromInt(1, 8), sz * 8)

\* ((int64_t) INT64_MAX) >> ((8U - size) * 8U)
IntOverLimitOff(sz) == Shr(INT64_MAX, (8 - sz) * 8 - 1)

IntOverLimit(sz) == Shr(INT64_MAX, (8 - sz) * 8)

fds_set_uint_be(f, sz, v) ==
    CASE sz = 8 -> [rc |-> FDS_OK, field |-> Store(f, MemOf(htobe64(v)))]
      [] sz = 4 ->
            IF ULt(UINT32_MAX, v)
            THEN [rc |-> FDS_ERR_TRUNC, field |-> Store(f, MemOf(Trunc(UINT32_MAX, 4)))]
            ELSE [rc |-> FDS_OK, field |-> Store(f, MemOf(htonl(Trunc(v, 4))))]
      [] sz = 2 ->
            IF ULt(UINT16_MAX, v)
            THEN [rc |-> FDS_ERR_TRUNC, field |-> Store(f, MemOf(Trunc(UINT16_MAX, 2)))]
            ELSE [rc |-> FDS_OK, field |-> Store(f, MemOf(htons(Trunc(v, 2))))]
      [] sz = 1 ->
            IF ULt(UINT8_MAX, v)
            THEN [rc |-> FDS_ERR_TRUNC, field |-> Store(f, MemOf(Trunc(UINT8_MAX, 1)))]
            ELSE [rc |-> FDS_OK, field |-> Store(f, MemOf(Trunc(v, 1)))]
      [] OTHER ->
            IF InvalidIntSize(sz) THEN [rc |-> FDS_ERR_ARG, field |-> f]
            ELSE LET over_limit == UintOverLimit(sz)
                 IN  IF ULe(over_limit, v)
                     THEN [rc |-> FDS_ERR_TRUNC,
                           field |-> Store(f, SubSeq(MemOf(UINT64_MAX), 1, sz))]
                     ELSE [rc |-> FDS_OK,
                           field |-> Store(f, SubSeq(MemOf(htobe64(v)), 8 - sz + 1, 8))]

fds_set_int_be(f, sz, v) ==
    CASE sz = 8 -> [rc |-> FDS_OK, field |-> Store(f, MemOf(htobe64(v)))]
      [] sz = 4 ->
            IF SLt(INT32_MAX, v)
            THEN [rc |-> FDS_ERR_TRUNC, field |-> Store(f, MemOf(htonl(Trunc(INT32_MAX, 4))))]
            ELSE IF SLt(v, INT32_MIN)
            THEN [rc |-> FDS_ERR_TRUNC, field |-> Store(f, MemOf(htonl(Trunc(INT32_MIN, 4))))]
            ELSE [rc |-> FDS_OK, field |-> Store(f, MemOf(htonl(Trunc(v, 4))))]
      [] sz = 2 ->
            IF SLt(INT16_MAX, v)
            THEN [rc |-> FDS_ERR_TRUNC, field |-> Store(f, MemOf(htons(Trunc(INT16_MAX, 2))))]
            ELSE IF SLt(v, INT16_MIN)
            THEN [rc |-> FDS_ERR_TRUNC, field |-> Store(f, MemOf(htons(Trunc(INT16_MIN, 2))))]
            ELSE [rc |-> FDS_OK, field |-> Store(f, MemOf(htons(Trunc(v, 2))))]
      [] sz = 1 ->
            IF SLt(INT8_MAX, v)
            THEN [rc |-> FDS_ERR_TRUNC, field |-> Store(f, MemOf(Trunc(INT8_MAX, 1)))]
            ELSE IF SLt(v, INT8_MIN)
            THEN [rc |-> FDS_ERR_TRUNC, field |-> Store(f, MemOf(Trunc(INT8_MIN, 1)))]
            ELSE [rc |-> FDS_OK, field |-> Store(f, MemOf(Trunc(v, 1)))]
      [] OTHER ->
            IF InvalidIntSize(sz) THEN [rc |-> FDS_ERR_ARG, field |-> f]
            ELSE LET over_limit == IntOverLimit(sz)
                     over == SLt(over_limit, v) \/ SLt(v, Not(over_limit))
                     new == IF SLt(over_limit, v) THEN htobe64(over_limit)
                            ELSE IF SLt(v, Not(over_limit)) THEN htobe64(Not(over_limit))
                            ELSE htobe64(v)
                 IN  [rc |-> IF over THEN FDS_ERR_TRUNC ELSE FDS_OK,
                      field |-> Store(f, SubSeq(MemOf(new), 8 - sz + 1, 8))]

fds_get_uint_be(f, sz, old) ==
    CASE sz = 8 -> [rc |-> FDS_OK, value |-> be64toh(Load(f, 8))]
      [] sz = 4 -> [rc |-> FDS_OK, value |-> ZExt(ntohl(Load(f, 4)), 8)]
      [] sz = 2 -> [rc |-> FDS_OK, value |-> ZExt(ntohs(Load(f, 2)), 8)]
      [] sz = 1 -> [rc |-> FDS_OK, value |-> ZExt(Load(f, 1), 8)]
      [] OTHER ->
            IF InvalidIntSize(sz) THEN [rc |-> FDS_ERR_ARG, value |-> old]
            ELSE LET new_value ==
                         ValOf(SubSeq(MemOf(Rep(0, 8)), 1, 8 - sz) \o SubSeq(f, 1, sz))
                 IN  [rc |-> FDS_OK, value |-> be64toh(new_value)]

fds_get_int_be(f, sz, old) ==
    CASE sz = 8 -> [rc |-> FDS_OK, value |-> be64toh(Load(f, 8))]
      [] sz = 4 -> [rc |-> FDS_OK, value |-> SExt(ntohl(Load(f, 4)), 8)]
      [] sz = 2 -> [rc |-> FDS_OK, value |-> SExt(ntohs(Load(f, 2)), 8)]
      [] sz = 1 -> [rc |-> FDS_OK, value |-> SExt(Load(f, 1), 8)]
      [] OTHER ->
            IF InvalidIntSize(sz) THEN [rc |-> FDS_ERR_ARG, value |-> old]
            ELSE LET sign == IF AndByte(f[1], 128) # 0 THEN Rep(255, 8) ELSE Rep(0, 8)
                     new_value == ValOf(SubSeq(MemOf(sign), 1, 8 - sz) \o SubSeq(f, 1, sz))
                 IN  [rc |-> FDS_OK, value |-> be64toh(new_value)]

(***************************************************************************)
(* The calls.  A run draws the arguments of the calls and the content of   *)
(* the caller's buffers, applies at most one setter to the field and then  *)
(* at most one getter to the field the setter left.                        *)
(***************************************************************************)
\* Sizes 0..MaxSize are tried: the valid ones and invalid ones on both sides
MaxSize == 9

\* The caller's output variables before a getter runs
OutInit == Rep(165, 8)

TsInit == [tv_sec |-> Rep(165, 8), tv_nsec |-> Rep(165, 8)]

\* Content of the field before a setter runs
Fills == {Rep(0, 8), <<17, 34, 51, 68, 85, 102, 119, 136>>}

\* Bounds of the s-byte unsigned and two's complement ranges, as 64-bit values:
\* 2^(8s) - 1, 2^(8s-1) - 1 and -2^(8s-1)
UMaxOf(s) == Rep(0, 8 - s) \o Rep(255, s)

SMaxOf(s) == Rep(0, 8 - s) \o <<127>> \o Rep(255, s - 1)

SMinOf(s) == Rep(255, 8 - s) \o <<128>> \o Rep(0, s - 1)

One64 == FromInt(1, 8)

\* Values given to the integer setters, and field contents given to the getters:
\* the bounds of every width, their neighbours, and values of mixed bytes
IntValues ==
    UNION {{UMaxOf(s), Add(UMaxOf(s), One64), Sub(UMaxOf(s), One64),
            SMaxOf(s), Add(SMaxOf(s), One64), Sub(SMaxOf(s), One64),
            SMinOf(s), Sub(SMinOf(s), One64), Add(SMinOf(s), One64)} : s \in 1..8}
    \cup {Rep(0, 8), One64, FromInt(256, 8), Sub(Rep(0, 8), FromInt(200, 8)),
          <<1, 2, 3, 4, 5, 6, 7, 8>>, <<129, 130, 131, 132, 133, 134, 135, 136>>,
          <<0, 0, 0, 0, 0, 18, 52, 86>>, <<255, 255, 255, 255, 255, 237, 203, 170>>,
          <<0, 0, 127, 1, 128, 2, 255, 3>>, <<255, 255, 128, 254, 127, 253, 0, 252>>}

NoTs == [tv_sec |-> Rep(0, 8), tv_nsec |-> Rep(0, 8)]

InitInt ==
    /\ little \in BOOLEAN
    /\ pc = "start"
    /\ op_set = "none"
    /\ op_get = "none"
    /\ size \in 0..MaxSize
    /\ type = "none"
    /\ \/ field \in Fills /\ in_value \in IntValues
       \/ field \in IntValues /\ in_value = Rep(0, 8)
    /\ field0 = field
    /\ in_ts = NoTs
    /\ rc_set = "none"
    /\ rc_get = "none"
    /\ value = OutInit
    /\ ts = TsInit
    /\ TextIdle

SetUint ==
    /\ pc = "start"
    /\ LET r == fds_set_uint_be(field, size, in_value)
       IN  /\ field' = r.field
           /\ rc_set' = r.rc
    /\ op_set' = "fds_set_uint_be"
    /\ pc' = "encoded"
    /\ UNCHANGED <<little, op_get, field0, size, type, in_value, in_ts, rc_get, value, ts>>
    /\ UNCHANGED textvars

SetInt ==
    /\ pc = "start"
    /\ LET r == fds_set_int_be(field, size, in_value)
       IN  /\ field' = r.field
           /\ rc_set' = r.rc
    /\ op_set' = "fds_set_int_be"
    /\ pc' = "encoded"
    /\ UNCHANGED <<little, op_get, field0, size, type, in_value, in_ts, rc_get, value, ts>>
    /\ UNCHANGED textvars

GetUint ==
    /\ pc \in {"start", "encoded"}
    /\ LET r == fds_get_uint_be(field, size, value)
       IN  /\ value' = r.value
           /\ rc_get' = r.rc
    /\ op_get' = "fds_get_uint_be"
    /\ pc' = "decoded"
    /\ UNCHANGED <<little, op_set, field, field0, size, type, in_value, in_ts, rc_set, ts>>
    /\ UNCHANGED textvars

GetInt ==
    /\ pc \in {"start", "encoded"}
    /\ LET r == fds_get_int_be(field, size, value)
       IN  /\ value' = r.value
           /\ rc_get' = r.rc
    /\ op_get' = "fds_get_int_be"
    /\ pc' = "decoded"
    /\ UNCHANGED <<little, op_set, field, field0, size, type, in_value, in_ts, rc_set, ts>>
    /\ UNCHANGED textvars

NextInt == SetUint \/ SetInt \/ GetUint \/ GetInt

SpecInt == InitInt /\ [][NextInt]_vars

(***************************************************************************)
(* Claims about the integer converters                                     *)
(***************************************************************************)
IntSetters == {"fds_set_uint_be", "fds_set_int_be"}

IntGetters == {"fds_get_uint_be", "fds_get_int_be"}

\* C1: for every size s in 1..8 and every value representable in s bytes,
\* the setter returns FDS_OK and the getter of the same signedness, applied to
\* the s bytes written, returns FDS_OK and exactly the value.
C1_IntRoundTrip ==
    (pc = "decoded" /\ size \in 1..8) =>
        /\ (/\ op_set = "fds_set_uint_be"
            /\ op_get = "fds_get_uint_be"
            /\ ULe(in_value, UMaxOf(size)))
           => (rc_set = FDS_OK /\ rc_get = FDS_OK /\ value = in_value)
        /\ (/\ op_set = "fds_set_int_be"
            /\ op_get = "fds_get_int_be"
            /\ SLe(SMinOf(size), in_value)
            /\ SLe(in_value, SMaxOf(size)))
           => (rc_set = FDS_OK /\ rc_get = FDS_OK /\ value = in_value)

\* -2^23, the least 3-byte value, has come back from a 3-byte field
C1_Witness ==
    /\ pc = "decoded"
    /\ op_set = "fds_set_int_be"
    /\ op_get = "fds_get_int_be"
    /\ size = 3
    /\ in_value = SMinOf(3)
    /\ SubSeq(field, 1, 3) = <<128, 0, 0>>
    /\ value = in_value

\* C2: for every size s in 1..8 and every 64-bit value v, fds_set_uint_be
\* returns FDS_ERR_TRUNC exactly when v > 2^(8s) - 1 (never for s = 8); the s
\* bytes of the field are then 0xFF and fds_get_uint_be yields 2^(8s) - 1.
\* Otherwise it returns FDS_OK.
C2_UintSaturation ==
    (op_set = "fds_set_uint_be" /\ size \in 1..8) =>
        /\ (rc_set = FDS_ERR_TRUNC) <=> ULt(UMaxOf(size), in_value)
        /\ (size = 8) => (rc_set # FDS_ERR_TRUNC)
        /\ (rc_set = FDS_ERR_TRUNC) =>
              /\ \A i \in 1..size : field[i] = 255
              /\ (op_get = "fds_get_uint_be") => (rc_get = FDS_OK /\ value = UMaxOf(size))
        /\ (rc_set # FDS_ERR_TRUNC) => (rc_set = FDS_OK)

\* 256 into a 1-byte field has given FDS_ERR_TRUNC and decodes to 255
C2_Witness ==
    /\ op_set = "fds_set_uint_be"
    /\ size = 1
    /\ in_value = FromInt(256, 8)
    /\ rc_set = FDS_ERR_TRUNC
    /\ op_get = "fds_get_uint_be"
    /\ value = FromInt(255, 8)

\* C3: for every size s in 1..8 and every int64 value v, fds_set_int_be returns
\* FDS_ERR_TRUNC exactly when v lies outside [-2^(8s-1), 2^(8s-1) - 1]; the
\* field then decodes with fds_get_int_be to the nearest bound.
C3_IntSaturation ==
    (op_set = "fds_set_int_be" /\ size \in 1..8) =>
        /\ (rc_set = FDS_ERR_TRUNC)
              <=> (SLt(in_value, SMinOf(size)) \/ SLt(SMaxOf(size), in_value))
        /\ (rc_set # FDS_ERR_TRUNC) => (rc_set = FDS_OK)
        /\ (op_get = "fds_get_int_be" /\ SLt(SMaxOf(size), in_value))
              => (rc_get = FDS_OK /\ value = SMaxOf(size))
        /\ (op_get = "fds_get_int_be" /\ SLt(in_value, SMinOf(size)))
              => (rc_get = FDS_OK /\ value = SMinOf(size))

\* -200 into a 1-byte field has given FDS_ERR_TRUNC and decodes to -128
C3_Witness ==
    /\ op_set = "fds_set_int_be"
    /\ size = 1
    /\ in_value = Sub(Rep(0, 8), FromInt(200, 8))
    /\ rc_set = FDS_ERR_TRUNC
    /\ op_get = "fds_get_int_be"
    /\ value = SMinOf(1)

\* C4: for size 0 or size > 8 the integer setters and getters return
\* FDS_ERR_ARG; the setters leave every byte of the field as it was and the
\* getters leave the output value as it was.
C4_IntBadSize ==
    (size = 0 \/ size > 8) =>
        /\ (op_set \in IntSetters) => (rc_set = FDS_ERR_ARG /\ field = field0)
        /\ (op_get \in IntGetters) => (rc_get = FDS_ERR_ARG /\ value = OutInit)

\* A setter and a getter have both refused size 0
C4_Witness ==
    /\ size = 0
    /\ op_set = "fds_set_int_be"
    /\ in_value = <<1, 2, 3, 4, 5, 6, 7, 8>>
    /\ rc_set = FDS_ERR_ARG
    /\ op_get = "fds_get_uint_be"
    /\ rc_get = FDS_ERR_ARG

(***************************************************************************)
(* Timestamp setters and getters                                           *)
(***************************************************************************)
\* Element types (enum fds_iemgr_element_type): the four timestamps, and others
FDS_ET_DATE_TIME_SECONDS == "FDS_ET_DATE_TIME_SECONDS"
FDS_ET_DATE_TIME_MILLISECONDS == "FDS_ET_DATE_TIME_MILLISECONDS"
FDS_ET_DATE_TIME_MICROSECONDS == "FDS_ET_DATE_TIME_MICROSECONDS"
FDS_ET_DATE_TIME_NANOSECONDS == "FDS_ET_DATE_TIME_NANOSECONDS"

TimeTypes ==
    {FDS_ET_DATE_TIME_SECONDS, FDS_ET_DATE_TIME_MILLISECONDS,
     FDS_ET_DATE_TIME_MICROSECONDS, FDS_ET_DATE_TIME_NANOSECONDS}

OtherTypes == {"FDS_ET_OCTET_ARRAY", "FDS_ET_UNSIGNED_64", "FDS_ET_STRING", "FDS_ET_IPV6_ADDRESS"}

\* 2208988800, seconds between the NTP and the UNIX epoch
FDS_CONVERT_EPOCHS_DIFF == <<0, 0, 0, 0, 131, 170, 126, 128>>

S1E3 == 1000
S1E6 == 1000000
S1E9 == 1000000000

\* 0xFFFFF800UL
FractionMaskWide == <<0, 0, 0, 0, 255, 255, 0, 0>>

FractionMaskNarrow == <<0, 0, 0, 0, 255, 255, 255, 0>>

FractionMask == <<0, 0, 0, 0, 255, 255, 248, 0>>

\* (size != sizeof(uint64_t) || type == SECONDS) && (size != sizeof(uint32_t) || type != SECONDS)
BadTimeSizeAny8(sz, ty) == sz # 8 /\ (sz # 4 \/ ty # FDS_ET_DATE_TIME_SECONDS)

BadTimeSize(sz, ty) ==
    /\ (sz # 8 \/ ty = FDS_ET_DATE_TIME_SECONDS)
    /\ (sz # 4 \/ ty # FDS_ET_DATE_TIME_SECONDS)

\* The two 32-bit parts of an NTP timestamp, each in network byte order
StoreParts(f, seconds, fraction) == Store(f, MemOf(htonl(seconds)) \o MemOf(htonl(fraction)))

fds_set_datetime_lp_be(f, sz, ty, v) ==
    IF BadTimeSize(sz, ty) THEN [rc |-> FDS_ERR_ARG, field |-> f]
    ELSE CASE ty = FDS_ET_DATE_TIME_SECONDS ->
                [rc |-> FDS_OK, field |-> Store(f, MemOf(htonl(Trunc(Div(v, S1E3), 4))))]
           [] ty = FDS_ET_DATE_TIME_MILLISECONDS ->
                [rc |-> FDS_OK, field |-> Store(f, MemOf(htobe64(v)))]
           [] ty \in {FDS_ET_DATE_TIME_MICROSECONDS, FDS_ET_DATE_TIME_NANOSECONDS} ->
                LET seconds == Trunc(Add(Div(v, S1E3), FDS_CONVERT_EPOCHS_DIFF), 4)
                    fraction == Trunc(Div(Shl(Mod(v, S1E3), 32), S1E3), 4)
                    masked == IF ty = FDS_ET_DATE_TIME_MICROSECONDS
                              THEN Trunc(And(ZExt(fraction, 8), FractionMask), 4)
                              ELSE fraction
                IN  [rc |-> FDS_OK, field |-> StoreParts(f, seconds, masked)]
           [] OTHER -> [rc |-> FDS_ERR_ARG, field |-> f]

fds_set_datetime_hp_be(f, sz, ty, t) ==
    IF BadTimeSize(sz, ty) THEN [rc |-> FDS_ERR_ARG, field |-> f]
    ELSE CASE ty = FDS_ET_DATE_TIME_SECONDS ->
                [rc |-> FDS_OK, field |-> Store(f, MemOf(htonl(Trunc(t.tv_sec, 4))))]
           [] ty = FDS_ET_DATE_TIME_MILLISECONDS ->
                [rc |-> FDS_OK,
                 field |-> Store(f, MemOf(htobe64(Add(Mul(t.tv_sec, FromInt(S1E3, 8)),
                                                      Div(t.tv_nsec, S1E6)))))]
           [] ty \in {FDS_ET_DATE_TIME_MICROSECONDS, FDS_ET_DATE_TIME_NANOSECONDS} ->
                LET seconds ==
                        Trunc(Add(ZExt(Trunc(t.tv_sec, 4), 8), FDS_CONVERT_EPOCHS_DIFF), 4)
                    fraction == Trunc(Div(Shl(t.tv_nsec, 32), S1E9), 4)
                    masked == IF ty = FDS_ET_DATE_TIME_MICROSECONDS
                              THEN Trunc(And(ZExt(fraction, 8), FractionMask), 4)
                              ELSE fraction
                IN  [rc |-> FDS_OK, field |-> StoreParts(f, seconds, masked)]
           [] OTHER -> [rc |-> FDS_ERR_ARG, field |-> f]

\* (*parts)[k] of the field read as uint32_t [2], as a host value
Part(f, k) == ZExt(ntohl(ValOf(SubSeq(f, 4 * k + 1, 4 * k + 4))), 8)

\* The fraction of an NTP timestamp as the getters take it
Fraction(f, ty) ==
    IF ty = FDS_ET_DATE_TIME_MICROSECONDS THEN And(Part(f, 1), FractionMask) ELSE Part(f, 1)

fds_get_datetime_lp_be(f, sz, ty, old) ==
    IF BadTimeSize(sz, ty) THEN [rc |-> FDS_ERR_ARG, value |-> old]
    ELSE CASE ty = FDS_ET_DATE_TIME_SECONDS ->
                [rc |-> FDS_OK, value |-> Mul(ZExt(ntohl(Load(f, 4)), 8), FromInt(S1E3, 8))]
           [] ty = FDS_ET_DATE_TIME_MILLISECONDS ->
                [rc |-> FDS_OK, value |-> be64toh(Load(f, 8))]
           [] ty \in {FDS_ET_DATE_TIME_MICROSECONDS, FDS_ET_DATE_TIME_NANOSECONDS} ->
                LET result == Mul(Sub(Part(f, 0), FDS_CONVERT_EPOCHS_DIFF), FromInt(S1E3, 8))
                    fraction == Fraction(f, ty)
                IN  [rc |-> FDS_OK,
                     value |-> Add(result, Shr(Mul(fraction, FromInt(S1E3, 8)), 32))]
           [] OTHER -> [rc |-> FDS_ERR_ARG, value |-> old]

\* The nanoseconds of a fraction, with the rounding correction of the getter:
\* fraction *= S1E9; fraction >>= 31; if (fraction & 0x1) ++fraction; fraction >> 1
FractionToNsecTruncating(fraction) == Shr(Mul(fraction, FromInt(S1E9, 8)), 32)

FractionToNsecRoundingUp(fraction) ==
    Add(Shr(Mul(fraction, FromInt(S1E9, 8)), 32), FromInt(1, 8))

FractionToNsec(fraction) ==
    LET scaled == Shr(Mul(fraction, FromInt(S1E9, 8)), 31)
        rounded == IF scaled[8] % 2 = 1 THEN Add(scaled, FromInt(1, 8)) ELSE scaled
    IN  Shr(rounded, 1)

fds_get_datetime_hp_be(f, sz, ty, old) ==
    IF BadTimeSize(sz, ty) THEN [rc |-> FDS_ERR_ARG, ts |-> old]
    ELSE CASE ty = FDS_ET_DATE_TIME_SECONDS ->
                [rc |-> FDS_OK,
                 ts |-> [tv_sec |-> ZExt(ntohl(Load(f, 4)), 8), tv_nsec |-> Rep(0, 8)]]
           [] ty = FDS_ET_DATE_TIME_MILLISECONDS ->
                LET new_value == be64toh(Load(f, 8))
                IN  [rc |-> FDS_OK,
                     ts |-> [tv_sec |-> Div(new_value, S1E3),
                             tv_nsec |-> Mul(Mod(new_value, S1E3), FromInt(S1E6, 8))]]
           [] ty \in {FDS_ET_DATE_TIME_MICROSECONDS, FDS_ET_DATE_TIME_NANOSECONDS} ->
                [rc |-> FDS_OK,
                 ts |-> [tv_sec |-> Sub(Part(f, 0), FDS_CONVERT_EPOCHS_DIFF),
                         tv_nsec |-> FractionToNsec(Fraction(f, ty))]]
           [] OTHER -> [rc |-> FDS_ERR_ARG, ts |-> old]

(***************************************************************************)
(* The timestamp calls                                                     *)
(***************************************************************************)
\* Numbers of sub-second samples given to the setters
MaxNsSamples == 40

MaxMsSamples == 40

\* Seconds since the UNIX epoch; 2085978495 is the last second of the NTP era
SecSamples == {0, 1, 1234567890, 2085978495}

\* Nanoseconds 0..999999999: samples spread over the range, and its edges
NsSamples ==
    {(i * 25641023) % S1E9 : i \in 0..MaxNsSamples}
    \cup {0, 1, 2, 476, 477, 999, 1000, 1001, 499999999, 500000000, 500000001,
          999999000, 999999998, 999999999}

\* Milliseconds 0..999
MsSubSamples == {(i * 37) % S1E3 : i \in 0..MaxMsSamples} \cup {0, 1, 124, 125, 126, 999}

TsOf(sec, nsec) == [tv_sec |-> FromInt(sec, 8), tv_nsec |-> FromInt(nsec, 8)]

MsOf(sec, msec) == Add(Mul(FromInt(sec, 8), FromInt(S1E3, 8)), FromInt(msec, 8))

\* Values beyond the NTP era and a negative tv_sec
TsExtremes ==
    {[tv_sec |-> Rep(255, 8), tv_nsec |-> FromInt(999999999, 8)],
     [tv_sec |-> <<0, 0, 0, 0, 124, 85, 129, 128>>, tv_nsec |-> Rep(0, 8)],
     [tv_sec |-> <<0, 0, 1, 0, 0, 0, 0, 5>>, tv_nsec |-> FromInt(1, 8)]}

TsSamples == {TsOf(s, n) : s \in SecSamples, n \in NsSamples} \cup TsExtremes

MsSamples == {MsOf(s, m) : s \in SecSamples, m \in MsSubSamples} \cup {UINT64_MAX}

\* Wire content given to the getters: seconds and fraction parts of an NTP
\* timestamp, also read as one 64-bit number
WireSeconds ==
    {<<0, 0, 0, 0>>, <<131, 170, 126, 127>>, <<131, 170, 126, 128>>,
     <<205, 64, 128, 82>>, <<255, 255, 255, 255>>}

WireFractions ==
    {<<0, 0, 0, 0>>, <<0, 0, 0, 1>>, <<0, 0, 7, 255>>, <<0, 0, 8, 0>>, <<0, 0, 16, 198>>,
     <<18, 52, 86, 120>>, <<127, 255, 255, 255>>, <<128, 0, 0, 0>>, <<255, 255, 247, 255>>,
     <<255, 255, 248, 0>>, <<255, 255, 255, 251>>, <<255, 255, 255, 253>>,
     <<255, 255, 255, 254>>, <<255, 255, 255, 255>>}

WireFields == {a \o b : a \in WireSeconds, b \in WireFractions}

AllTypes == TimeTypes \cup OtherTypes

\* The one size of field that holds a timestamp of the type
TimeSize(ty) == IF ty = FDS_ET_DATE_TIME_SECONDS THEN 4 ELSE 8

InitTime ==
    /\ little \in BOOLEAN
    /\ pc = "start"
    /\ op_set = "none"
    /\ op_get = "none"
    /\ \/ \* every type with every size
          /\ type \in AllTypes
          /\ size \in 0..MaxSize
          /\ field \in Fills
          /\ in_value = UINT64_MAX
          /\ in_ts \in TsExtremes
       \/ \* the timestamps with their size
          /\ type \in TimeTypes
          /\ size = TimeSize(type)
          /\ \/ field = Rep(0, 8) /\ in_value \in MsSamples /\ in_ts = NoTs
             \/ field = Rep(0, 8) /\ in_value = Rep(0, 8) /\ in_ts \in TsSamples
             \/ field \in WireFields /\ in_value = Rep(0, 8) /\ in_ts = NoTs
    /\ field0 = field
    /\ rc_set = "none"
    /\ rc_get = "none"
    /\ value = OutInit
    /\ ts = TsInit
    /\ TextIdle

SetDatetimeLp ==
    /\ pc = "start"
    /\ LET r == fds_set_datetime_lp_be(field, size, type, in_value)
       IN  /\ field' = r.field
           /\ rc_set' = r.rc
    /\ op_set' = "fds_set_datetime_lp_be"
    /\ pc' = "encoded"
    /\ UNCHANGED <<little, op_get, field0, size, type, in_value, in_ts, rc_get, value, ts>>
    /\ UNCHANGED textvars

SetDatetimeHp ==
    /\ pc = "start"
    /\ LET r == fds_set_datetime_hp_be(field, size, type, in_ts)
       IN  /\ field' = r.field
           /\ rc_set' = r.rc
    /\ op_set' = "fds_set_datetime_hp_be"
    /\ pc' = "encoded"
    /\ UNCHANGED <<little, op_get, field0, size, type, in_value, in_ts, rc_get, value, ts>>
    /\ UNCHANGED textvars

GetDatetimeLp ==
    /\ pc \in {"start", "encoded"}
    /\ LET r == fds_get_datetime_lp_be(field, size, type, value)
       IN  /\ value' = r.value
           /\ rc_get' = r.rc
    /\ op_get' = "fds_get_datetime_lp_be"
    /\ pc' = "decoded"
    /\ UNCHANGED <<little, op_set, field, field0, size, type, in_value, in_ts, rc_set, ts>>
    /\ UNCHANGED textvars

GetDatetimeHp ==
    /\ pc \in {"start", "encoded"}
    /\ LET r == fds_get_datetime_hp_be(field, size, type, ts)
       IN  /\ ts' = r.ts
           /\ rc_get' = r.rc
    /\ op_get' = "fds_get_datetime_hp_be"
    /\ pc' = "decoded"
    /\ UNCHANGED <<little, op_set, field, field0, size, type, in_value, in_ts, rc_set, value>>
    /\ UNCHANGED textvars

NextTime == SetDatetimeLp \/ SetDatetimeHp \/ GetDatetimeLp \/ GetDatetimeHp

SpecTime == InitTime /\ [][NextTime]_vars

(***************************************************************************)
(* Claims about the timestamp converters                                   *)
(***************************************************************************)
TimeSetters == {"fds_set_datetime_lp_be", "fds_set_datetime_hp_be"}

TimeGetters == {"fds_get_datetime_lp_be", "fds_get_datetime_hp_be"}

\* A high precision value has been written to the field and read back from it
HpRoundTrip(ty) ==
    /\ pc = "decoded"
    /\ op_set = "fds_set_datetime_hp_be"
    /\ op_get = "fds_get_datetime_hp_be"
    /\ type = ty
    /\ size = 8

\* 0 <= tv_sec <= 2085978495 (tv_sec + 2208988800 < 2^32), 0 <= tv_nsec <= 999999999
InNtpEra(seconds) == ULe(seconds, FromInt(2085978495, 8))

NsecValid(nsec) == ULe(nsec, FromInt(999999999, 8))

\* C5: for every seconds value with seconds + 2208988800 < 2^32 and every
\* nanoseconds value in 0..999999999, fds_set_datetime_hp_be followed by
\* fds_get_datetime_hp_be on an 8-byte NANOSECONDS field gives back exactly
\* the pair (seconds, nanoseconds).
C5_NanoRoundTrip ==
    (/\ HpRoundTrip(FDS_ET_DATE_TIME_NANOSECONDS)
     /\ InNtpEra(in_ts.tv_sec)
     /\ NsecValid(in_ts.tv_nsec))
    => (rc_set = FDS_OK /\ rc_get = FDS_OK /\ ts = in_ts)

\* 999999999 ns, which a truncating conversion would return as 999999998
C5_Witness ==
    /\ HpRoundTrip(FDS_ET_DATE_TIME_NANOSECONDS)
    /\ in_ts = TsOf(1234567890, 999999999)
    /\ ts = in_ts

\* C6: for every field that fds_get_datetime_hp_be accepts, whatever its
\* bytes, the decoded tv_nsec lies in 0..999999999.
C6_NsecInRange ==
    (op_get = "fds_get_datetime_hp_be" /\ rc_get = FDS_OK) => NsecValid(ts.tv_nsec)

\* C7: for every seconds value with seconds + 2208988800 < 2^32 and every
\* nanoseconds value n in 0..999999999, the MICROSECONDS round trip of the
\* high precision converters returns the same seconds and nanoseconds within
\* 1000 ns of n.
C7_MicroRoundTrip ==
    (/\ HpRoundTrip(FDS_ET_DATE_TIME_MICROSECONDS)
     /\ InNtpEra(in_ts.tv_sec)
     /\ NsecValid(in_ts.tv_nsec))
    => /\ rc_set = FDS_OK
       /\ rc_get = FDS_OK
       /\ ts.tv_sec = in_ts.tv_sec
       /\ FitsInt(ts.tv_nsec)
       /\ ToInt(ts.tv_nsec) - ToInt(in_ts.tv_nsec) \in -1000..1000

\* 999999999 ns has come back as another value, within 1000 ns
C7_Witness ==
    /\ HpRoundTrip(FDS_ET_DATE_TIME_MICROSECONDS)
    /\ in_ts = TsOf(2085978495, 999999999)
    /\ ts.tv_sec = in_ts.tv_sec
    /\ ts.tv_nsec # in_ts.tv_nsec

\* C8, as claimed: after the MICROSECONDS round trip of the high precision
\* converters the decoded nanoseconds are a multiple of 1000.
C8_MicroMultipleOf1000 ==
    (HpRoundTrip(FDS_ET_DATE_TIME_MICROSECONDS) /\ NsecValid(in_ts.tv_nsec))
    => (FitsInt(ts.tv_nsec) /\ ToInt(ts.tv_nsec) % 1000 = 0)

\* C8, as amended: after the MICROSECONDS round trip of the high precision
\* converters the decoded nanoseconds d of an input n in 0..999999999 satisfy
\* n - 477 <= d <= n: the wire fraction keeps 21 bits, and d is in general
\* no multiple of 1000.
C8_MicroResolution ==
    (HpRoundTrip(FDS_ET_DATE_TIME_MICROSECONDS) /\ NsecValid(in_ts.tv_nsec))
    => /\ FitsInt(ts.tv_nsec)
       /\ ToInt(in_ts.tv_nsec) - ToInt(ts.tv_nsec) \in 0..477

\* 1000 ns (one microsecond) has come back as 954 ns
C8_Witness ==
    /\ HpRoundTrip(FDS_ET_DATE_TIME_MICROSECONDS)
    /\ in_ts.tv_nsec = FromInt(1000, 8)
    /\ ts.tv_nsec = FromInt(954, 8)

\* C9: for every millisecond value v with v / 1000 + 2208988800 < 2^32,
\* fds_set_datetime_lp_be followed by fds_get_datetime_lp_be on an 8-byte
\* NANOSECONDS field returns exactly v.
C9_LpNanoRoundTrip ==
    (/\ pc = "decoded"
     /\ op_set = "fds_set_datetime_lp_be"
     /\ op_get = "fds_get_datetime_lp_be"
     /\ type = FDS_ET_DATE_TIME_NANOSECONDS
     /\ size = 8
     /\ InNtpEra(Div(in_value, S1E3)))
    => (rc_set = FDS_OK /\ rc_get = FDS_OK /\ value = in_value)

\* The (type, size) pairs of a timestamp field
ValidTime ==
    \/ type = FDS_ET_DATE_TIME_SECONDS /\ size = 4
    \/ /\ type \in {FDS_ET_DATE_TIME_MILLISECONDS, FDS_ET_DATE_TIME_MICROSECONDS,
                    FDS_ET_DATE_TIME_NANOSECONDS}
       /\ size = 8

\* C10: each timestamp setter and getter returns FDS_OK exactly for SECONDS
\* with size 4 and MILLISECONDS, MICROSECONDS, NANOSECONDS with size 8; for
\* every other type and size it returns FDS_ERR_ARG and leaves the field
\* (setters) or the output value (getters) as it was.  No setter returns
\* FDS_ERR_TRUNC.
C10_TimeValidation ==
    /\ (op_set \in TimeSetters) =>
          /\ (rc_set = FDS_OK) <=> ValidTime
          /\ (~ValidTime) => (rc_set = FDS_ERR_ARG /\ field = field0)
          /\ rc_set # FDS_ERR_TRUNC
    /\ (op_get \in TimeGetters) =>
          /\ (rc_get = FDS_OK) <=> ValidTime
          /\ (~ValidTime) => (rc_get = FDS_ERR_ARG /\ value = OutInit /\ ts = TsInit)

\* A setter and then a getter have refused an 8-byte field whose type is not
\* a timestamp type
C10_Witness ==
    /\ type = "FDS_ET_UNSIGNED_64"
    /\ size = 8
    /\ op_set = "fds_set_datetime_hp_be"
    /\ rc_set = FDS_ERR_ARG
    /\ op_get = "fds_get_datetime_lp_be"
    /\ rc_get = FDS_ERR_ARG

(***************************************************************************)
(* Renderers: from a field to text (src/converters/converters.c)           *)
(*                                                                         *)
(* A text is a sequence of character codes.  A renderer is an operator     *)
(* from the field, its size, the output buffer as it is before the call    *)
(* and its size to [rc, len, str]: rc is FDS_OK and len the returned       *)
(* length on success, rc is the error code and len is 0 otherwise, and str *)
(* is the output buffer as the call leaves it.                             *)
(***************************************************************************)
FDS_ERR_BUFFER == "FDS_ERR_BUFFER"
FDS_ERR_FORMAT == "FDS_ERR_FORMAT"

Ok(n, s) == [rc |-> FDS_OK, len |-> n, str |-> s]

Err(code, s) == [rc |-> code, len |-> 0, str |-> s]

\* The buffer s with the bytes written from offset pos on (offsets from 0)
WriteAt(s, pos, bytes) ==
    AsSeq([i \in 1..Len(s) |->
        IF i > pos /\ i <= pos + Len(bytes) THEN bytes[i - pos] ELSE s[i]])

\* The terminating zero byte of a C string
NUL == 0

(***************************************************************************)
(* Boolean                                                                 *)
(***************************************************************************)
\* "true" and "false"
FDS_CONVERT_STR_TRUE == <<116, 114, 117, 101>>
FDS_CONVERT_STR_FALSE == <<102, 97, 108, 115, 101>>

\* sizeof of the literals: their length and the terminator
FDS_CONVERT_STRLEN_TRUE == Len(FDS_CONVERT_STR_TRUE) + 1
FDS_CONVERT_STRLEN_FALSE == Len(FDS_CONVERT_STR_FALSE) + 1

fds_get_bool(f, sz, old) ==
    IF sz # 1 THEN [rc |-> FDS_ERR_ARG, value |-> old]
    ELSE IF f[1] = 1 THEN [rc |-> FDS_OK, value |-> TRUE]
    ELSE IF f[1] = 2 THEN [rc |-> FDS_OK, value |-> FALSE]
    ELSE [rc |-> FDS_ERR_ARG, value |-> old]

\* The capacity check of fds_bool2str
BoolNoRoomNoTerminator(capacity, bool_len) == capacity < bool_len - 1

BoolNoRoom(capacity, bool_len) == capacity < bool_len

fds_bool2str(f, s, capacity) ==
    LET g == fds_get_bool(f, 1, FALSE)
        bool_str == IF g.value THEN FDS_CONVERT_STR_TRUE ELSE FDS_CONVERT_STR_FALSE
        bool_len == IF g.value THEN FDS_CONVERT_STRLEN_TRUE ELSE FDS_CONVERT_STRLEN_FALSE
    IN  IF g.rc # FDS_OK THEN Err(FDS_ERR_ARG, s)
        ELSE IF BoolNoRoom(capacity, bool_len) THEN Err(FDS_ERR_BUFFER, s)
        ELSE Ok(bool_len - 1, WriteAt(s, 0, bool_str \o <<NUL>>))

wrapper_bool(f, sz, s, capacity) ==
    IF sz # 1 THEN Err(FDS_ERR_ARG, s)
    ELSE fds_bool2str(f, s, capacity)

(***************************************************************************)
(* Integers                                                                *)
(***************************************************************************)
\* The decimal digits of an unsigned value, most significant first
RECURSIVE Decimal(_)
Decimal(x) ==
    IF ULt(x, FromInt(10, Len(x))) THEN <<48 + x[Len(x)]>>
    ELSE Decimal(DivSmall(x, 10)) \o <<48 + RemTop(x, 10, Len(x))>>

\* The formatters of branchlut2.h write the decimal text of the value and a
\* terminator from offset pos on and return the offset of the terminator
u64toa_branchlut2(x, s, pos) ==
    LET digits == Decimal(x)
    IN  [pos |-> pos + Len(digits), str |-> WriteAt(s, pos, digits \o <<NUL>>)]

u32toa_branchlut2(x, s, pos) == u64toa_branchlut2(x, s, pos)

i64toa_branchlut2(x, s, pos) ==
    IF x[1] >= 128
    THEN u64toa_branchlut2(Sub(Rep(0, Len(x)), x), WriteAt(s, pos, <<45>>), pos + 1)
    ELSE u64toa_branchlut2(x, s, pos)

\* Minimal size of an output buffer for any integer conversion
FDS_CONVERT_STRLEN_INT == 21

\* The capacity check of the integer renderers
IntNoRoom(capacity, result) == capacity < FDS_CONVERT_STRLEN_INT

fds_uint2str_be(f, sz, s, capacity) ==
    LET g == fds_get_uint_be(f, sz, Rep(0, 8))
    IN  IF g.rc # FDS_OK THEN Err(FDS_ERR_ARG, s)
        ELSE IF IntNoRoom(capacity, g.value) THEN Err(FDS_ERR_BUFFER, s)
        ELSE LET r == u64toa_branchlut2(g.value, s, 0) IN Ok(r.pos, r.str)

fds_int2str_be(f, sz, s, capacity) ==
    LET g == fds_get_int_be(f, sz, Rep(0, 8))
    IN  IF g.rc # FDS_OK THEN Err(FDS_ERR_ARG, s)
        ELSE IF IntNoRoom(capacity, g.value) THEN Err(FDS_ERR_BUFFER, s)
        ELSE LET r == i64toa_branchlut2(g.value, s, 0) IN Ok(r.pos, r.str)

(***************************************************************************)
(* Octet array and MAC address                                             *)
(***************************************************************************)
\* An uppercase hexadecimal digit: (n < 10) ? ('0' + n) : ('A' - 10 + n)
HexDigit(n) == IF n < 10 THEN 48 + n ELSE 65 - 10 + n

\* The two digits of a byte, low nibble first
HexPairLowFirst(b) == <<HexDigit(b % 16), HexDigit(b \div 16)>>

\* The two digits of a byte, high nibble first
HexPair(b) == <<HexDigit(b \div 16), HexDigit(b % 16)>>

RECURSIVE HexText(_, _)
HexText(f, n) == IF n = 0 THEN <<>> ELSE HexText(f, n - 1) \o HexPair(f[n])

fds_octet_array2str(f, sz, s, capacity) ==
    LET real_len == (2 * sz) + 1
    IN  IF real_len > capacity THEN Err(FDS_ERR_BUFFER, s)
        ELSE Ok(real_len - 1, WriteAt(s, 0, HexText(f, sz) \o <<NUL>>))

\* A copy of the first 6 bytes whatever the size
fds_get_macAnySize(f, sz, old) == [rc |-> FDS_OK, value |-> SubSeq(f, 1, 6)]

fds_get_mac(f, sz, old) ==
    IF sz # 6 THEN [rc |-> FDS_ERR_ARG, value |-> old]
    ELSE [rc |-> FDS_OK, value |-> SubSeq(f, 1, 6)]

\* Minimal size of an output buffer for any MAC address conversion
FDS_CONVERT_STRLEN_MAC == 18

\* snprintf(str, n, ...): the text cut to n - 1 characters and a terminator
\* are written when n > 0; the length of the whole text is returned
snprintf(s, pos, n, text) ==
    IF n = 0 THEN s
    ELSE LET kept == IF Len(text) > n - 1 THEN SubSeq(text, 1, n - 1) ELSE text
         IN  WriteAt(s, pos, kept \o <<NUL>>)

\* "%02X:%02X:%02X:%02X:%02X:%02X"
MacText(mac) ==
    HexPair(mac[1]) \o <<58>> \o HexPair(mac[2]) \o <<58>> \o HexPair(mac[3]) \o <<58>>
        \o HexPair(mac[4]) \o <<58>> \o HexPair(mac[5]) \o <<58>> \o HexPair(mac[6])

\* The capacity check of fds_mac2str
MacNoRoom(capacity) == capacity < FDS_CONVERT_STRLEN_MAC

fds_mac2str(f, sz, s, capacity) ==
    LET g == fds_get_mac(f, sz, Rep(0, 6))
    IN  IF g.rc # FDS_OK THEN Err(FDS_ERR_ARG, s)
        ELSE IF MacNoRoom(capacity) THEN Err(FDS_ERR_BUFFER, s)
        ELSE LET text == MacText(g.value)
                 ret == Len(text)
             IN  IF ret + 1 # FDS_CONVERT_STRLEN_MAC
                 THEN Err(FDS_ERR_ARG, snprintf(s, 0, capacity, text))
                 ELSE Ok(ret, snprintf(s, 0, capacity, text))

(***************************************************************************)
(* IP address                                                              *)
(***************************************************************************)
\* inet_ntop(AF_INET6, ...) of the C library on the addresses given to the
\* renderer: the text of each address
Ip6Texts ==
    \* ::
    (<<0, 0, 0, 0, 0, 0, 0, 0, 0, 0, 0, 0, 0, 0, 0, 0>> :>
        <<58, 58>>) @@
    \* ::1
    (<<0, 0, 0, 0, 0, 0, 0, 0, 0, 0, 0, 0, 0, 0, 0, 1>> :>
        <<58, 58, 49>>) @@
    \* 2001:db8::1
    (<<32, 1, 13, 184, 0, 0, 0, 0, 0, 0, 0, 0, 0, 0, 0, 1>> :>
        <<50, 48, 48, 49, 58, 100, 98, 56, 58, 58, 49>>) @@
    \* fe80::202:b3ff:fe1e:8329
    (<<254, 128, 0, 0, 0, 0, 0, 0, 2, 2, 179, 255, 254, 30, 131, 41>> :>
        <<102, 101, 56, 48, 58, 58, 50, 48, 50, 58, 98, 51, 102, 102, 58, 102, 101, 49, 101, 58, 56, 51, 50, 57>>) @@
    \* ::ffff:192.0.2.1
    (<<0, 0, 0, 0, 0, 0, 0, 0, 0, 0, 255, 255, 192, 0, 2, 1>> :>
        <<58, 58, 102, 102, 102, 102, 58, 49, 57, 50, 46, 48, 46, 50, 46, 49>>) @@
    \* 2001:db8:1:2:3:4:5:6
    (<<32, 1, 13, 184, 0, 1, 0, 2, 0, 3, 0, 4, 0, 5, 0, 6>> :>
        <<50, 48, 48, 49, 58, 100, 98, 56, 58, 49, 58, 50, 58, 51, 58, 52, 58, 53, 58, 54>>)

\* inet_ntop fails when the text and its terminator do not fit
inet_ntop(addr, s, capacity) ==
    LET text == Ip6Texts[addr]
    IN  IF Len(text) + 1 > capacity THEN [ok |-> FALSE, len |-> 0, str |-> s]
        ELSE [ok |-> TRUE, len |-> Len(text), str |-> WriteAt(s, 0, text \o <<NUL>>)]

\* The capacity check of fds_ip2str for an IPv4 address: 4 groups of at most
\* 3 digits, 3 dots and the terminator
Ip4MinSizeOfText(f) ==
    Len(Decimal(<<f[1]>>)) + Len(Decimal(<<f[2]>>)) + Len(Decimal(<<f[3]>>))
        + Len(Decimal(<<f[4]>>)) + 3 + 1

Ip4MinSize(f) == 16

fds_ip2str(f, sz, s, capacity) ==
    IF sz = 4 THEN
        IF capacity < Ip4MinSize(f) THEN Err(FDS_ERR_BUFFER, s)
        ELSE LET a == u32toa_branchlut2(FromInt(f[1], 4), s, 0)
                 b == u32toa_branchlut2(FromInt(f[2], 4), WriteAt(a.str, a.pos, <<46>>), a.pos + 1)
                 c == u32toa_branchlut2(FromInt(f[3], 4), WriteAt(b.str, b.pos, <<46>>), b.pos + 1)
                 d == u32toa_branchlut2(FromInt(f[4], 4), WriteAt(c.str, c.pos, <<46>>), c.pos + 1)
             IN  Ok(d.pos, d.str)
    ELSE IF sz = 16 THEN
        LET r == inet_ntop(SubSeq(f, 1, 16), s, capacity)
        IN  IF ~r.ok THEN Err(FDS_ERR_BUFFER, r.str) ELSE Ok(r.len, r.str)
    ELSE Err(FDS_ERR_ARG, s)

wrapper_ip4(f, sz, s, capacity) ==
    IF sz # 4 THEN Err(FDS_ERR_ARG, s) ELSE fds_ip2str(f, sz, s, capacity)

wrapper_ip6(f, sz, s, capacity) ==
    IF sz # 16 THEN Err(FDS_ERR_ARG, s) ELSE fds_ip2str(f, sz, s, capacity)

(***************************************************************************)
(* Float                                                                   *)
(***************************************************************************)
\* A float or double is [width, bits]: the bytes of its IEEE 754 encoding,
\* most significant first
fds_get_float_be(f, sz, old) ==
    IF sz = 8 THEN [rc |-> FDS_OK, value |-> [width |-> 8, bits |-> be64toh(Load(f, 8))]]
    ELSE IF sz = 4 THEN [rc |-> FDS_OK, value |-> [width |-> 4, bits |-> ntohl(Load(f, 4))]]
    ELSE [rc |-> FDS_ERR_ARG, value |-> old]

\* The exponent field is all ones: infinity or not a number
ExponentAllOnes(v) ==
    IF v.width = 4 THEN (v.bits[1] % 128 = 127) /\ (v.bits[2] >= 128)
    ELSE (v.bits[1] % 128 = 127) /\ (v.bits[2] \div 16 = 15)

MantissaZero(v) ==
    IF v.width = 4 THEN (v.bits[2] % 128 = 0) /\ (\A i \in 3..4 : v.bits[i] = 0)
    ELSE (v.bits[2] % 16 = 0) /\ (\A i \in 3..8 : v.bits[i] = 0)

isfinite(v) == ~ExponentAllOnes(v)

isnan(v) == ExponentAllOnes(v) /\ ~MantissaZero(v)

\* isinf of the GNU C library: 1 for plus infinity, -1 for minus infinity
isinf(v) ==
    IF ExponentAllOnes(v) /\ MantissaZero(v)
    THEN (IF v.bits[1] >= 128 THEN -1 ELSE 1)
    ELSE 0

\* snprintf with "%.6g" (float) and "%.15g" (double) of the C library on the
\* finite values given to the renderer: the text of each value
PrintfG ==
    \* 0
    (<<4, <<0, 0, 0, 0>>>> :>
        <<48>>) @@
    \* 1
    (<<4, <<63, 128, 0, 0>>>> :>
        <<49>>) @@
    \* -2.5
    (<<4, <<192, 32, 0, 0>>>> :>
        <<45, 50, 46, 53>>) @@
    \* 0.1
    (<<4, <<61, 204, 204, 205>>>> :>
        <<48, 46, 49>>) @@
    \* 3.40282e+38
    (<<4, <<127, 127, 255, 255>>>> :>
        <<51, 46, 52, 48, 50, 56, 50, 101, 43, 51, 56>>) @@
    \* 0
    (<<8, <<0, 0, 0, 0, 0, 0, 0, 0>>>> :>
        <<48>>) @@
    \* 1
    (<<8, <<63, 240, 0, 0, 0, 0, 0, 0>>>> :>
        <<49>>) @@
    \* 0.1
    (<<8, <<63, 185, 153, 153, 153, 153, 153, 154>>>> :>
        <<48, 46, 49>>) @@
    \* 1.79769313486232e+308
    (<<8, <<127, 239, 255, 255, 255, 255, 255, 255>>>> :>
        <<49, 46, 55, 57, 55, 54, 57, 51, 49, 51, 52, 56, 54, 50, 51, 50, 101, 43, 51, 48, 56>>) @@
    \* 123456789.125
    (<<8, <<65, 157, 111, 52, 84, 128, 0, 0>>>> :>
        <<49, 50, 51, 52, 53, 54, 55, 56, 57, 46, 49, 50, 53>>)

fds_float2str_be(f, sz, s, capacity) ==
    LET g == fds_get_float_be(f, sz, [width |-> 8, bits |-> Rep(0, 8)])
        result == g.value
    IN  IF g.rc # FDS_OK THEN Err(FDS_ERR_ARG, s)
        ELSE IF isfinite(result) THEN
            LET text == PrintfG[<<result.width, result.bits>>]
                str_real_len == Len(text)
            IN  IF str_real_len >= capacity
                THEN Err(FDS_ERR_BUFFER, snprintf(s, 0, capacity, text))
                ELSE Ok(str_real_len, snprintf(s, 0, capacity, text))
        ELSE
            LET output == IF isnan(result) THEN <<78, 97, 78>>               \* "NaN"
                          ELSE IF isinf(result) = 1 THEN <<105, 110, 102>>   \* "inf"
                          ELSE IF isinf(result) = -1 THEN <<45, 105, 110, 102>>  \* "-inf"
                          ELSE <<>>
                output_len == Len(output)
            IN  IF output = <<>> THEN Err(FDS_ERR_ARG, s)
                ELSE IF output_len + 1 > capacity THEN Err(FDS_ERR_BUFFER, s)
                ELSE Ok(output_len, WriteAt(s, 0, output \o <<NUL>>))

(***************************************************************************)
(* Timestamp                                                               *)
(***************************************************************************)
FDS_CONVERT_TF_SEC_UTC == 1
FDS_CONVERT_TF_MSEC_UTC == 2
FDS_CONVERT_TF_USEC_UTC == 3
FDS_CONVERT_TF_NSEC_UTC == 4
FDS_CONVERT_TF_SEC_LOCAL == 17
FDS_CONVERT_TF_MSEC_LOCAL == 18
FDS_CONVERT_TF_USEC_LOCAL == 19
FDS_CONVERT_TF_NSEC_LOCAL == 20

\* The decimal digits of a number n >= 0, padded with zeros to width w
RECURSIVE DecimalOfInt(_)
DecimalOfInt(n) ==
    IF n < 10 THEN <<48 + n>> ELSE DecimalOfInt(n \div 10) \o <<48 + (n % 10)>>

ZeroPadded(n, w) ==
    LET digits == DecimalOfInt(n)
    IN  IF Len(digits) >= w THEN digits ELSE Rep(48, w - Len(digits)) \o digits

\* The calendar of the C library (gmtime_r, localtime_r) for the times the
\* wire formats reach without leaving the years 1900 to 2106: the date of
\* the day z, counted from 0000-03-01 in the proleptic Gregorian calendar
CivilFromDays(z) ==
    LET era == z \div 146097
        doe == z - era * 146097
        yoe == (doe - doe \div 1460 + doe \div 36524 - doe \div 146096) \div 365
        doy == doe - (365 * yoe + yoe \div 4 - yoe \div 100)
        mp  == (5 * doy + 2) \div 153
        mon == IF mp < 10 THEN mp + 3 ELSE mp - 9
    IN  [tm_year |-> yoe + era * 400 + (IF mon <= 2 THEN 1 ELSE 0),
         tm_mon  |-> mon,
         tm_mday |-> doy - (153 * mp + 2) \div 5 + 1]

\* Seconds of a day, and days from 0000-03-01 to the day before 1900-01-01
SecondsPerDay == 86400
DaysBefore1900 == 693900

\* The broken-down time of a time_t t at gmtoff seconds east of UTC
BrokenDown(t, gmtoff) ==
    LET \* seconds since 1899-12-31T00:00:00 local time: never negative
        shifted == Add(Add(t, FDS_CONVERT_EPOCHS_DIFF), FromInt(SecondsPerDay + gmtoff, 8))
        days    == ToInt(DivSmall(shifted, SecondsPerDay))
        secs    == RemTop(shifted, SecondsPerDay, 8)
        date    == CivilFromDays(days + DaysBefore1900)
    IN  [ok |-> TRUE,
         tm_year |-> date.tm_year, tm_mon |-> date.tm_mon, tm_mday |-> date.tm_mday,
         tm_hour |-> secs \div 3600, tm_min |-> (secs % 3600) \div 60, tm_sec |-> secs % 60,
         tm_gmtoff |-> gmtoff]

gmtime_r(t) == BrokenDown(t, 0)

\* The local time zone is a fixed offset of zone minutes
localtime_r(t, zone) == BrokenDown(t, zone * 60)

\* strftime "%FT%T": YYYY-MM-DDTHH:MM:SS
BaseText(tm) ==
    ZeroPadded(tm.tm_year, 4) \o <<45>> \o ZeroPadded(tm.tm_mon, 2) \o <<45>>
        \o ZeroPadded(tm.tm_mday, 2) \o <<84>> \o ZeroPadded(tm.tm_hour, 2) \o <<58>>
        \o ZeroPadded(tm.tm_min, 2) \o <<58>> \o ZeroPadded(tm.tm_sec, 2)

\* strftime "%z": +hhmm or -hhmm
ZoneText(tm) ==
    LET off == IF tm.tm_gmtoff < 0 THEN -tm.tm_gmtoff ELSE tm.tm_gmtoff
    IN  <<IF tm.tm_gmtoff < 0 THEN 45 ELSE 43>>
            \o ZeroPadded(off \div 3600, 2) \o ZeroPadded((off % 3600) \div 60, 2)

\* strftime(s + pos, max, ...): the text and a terminator when they fit in
\* max bytes, and the length of the text; otherwise 0
strftime(s, pos, max, text) ==
    IF Len(text) + 1 > max THEN [ret |-> 0, str |-> s]
    ELSE [ret |-> Len(text), str |-> WriteAt(s, pos, text \o <<NUL>>)]

\* fmt & 0x10 and fmt & 0x0F for a selector fm >= 0
LocalBit(fm) == (fm \div 16) % 2 = 1

LowBits(fm) == fm % 16

\* The digits of the fraction for a selector: [width, frac]
FractionOf(fm, tv_nsec) ==
    CASE fm = FDS_CONVERT_TF_SEC_UTC  -> [ok |-> TRUE, width |-> 0, frac |-> 0]
      [] fm = FDS_CONVERT_TF_MSEC_UTC ->
            [ok |-> TRUE, width |-> 3, frac |-> ToInt(Trunc(Div(tv_nsec, 1000000), 4))]
      [] fm = FDS_CONVERT_TF_USEC_UTC ->
            [ok |-> TRUE, width |-> 6, frac |-> ToInt(Trunc(Div(tv_nsec, 1000), 4))]
      [] fm = FDS_CONVERT_TF_NSEC_UTC ->
            [ok |-> TRUE, width |-> 9, frac |-> ToInt(Trunc(tv_nsec, 4))]
      [] OTHER -> [ok |-> FALSE, width |-> 0, frac |-> 0]

\* The steps of fds_datetime2str_be, each on what the steps before it have
\* left: the buffer s, the bytes used and the bytes that remain.
\* The time zone: 'Z' for UTC, strftime "%z" for local time
RenderZone(tm, s, size_remain, size_used, utc_time) ==
    IF utc_time THEN
        IF size_remain < 2 THEN Err(FDS_ERR_BUFFER, s)
        ELSE Ok(size_used + 1, WriteAt(s, size_used, <<90, NUL>>))
    ELSE
        LET zoned == strftime(s, size_used, size_remain, ZoneText(tm))
        IN  IF zoned.ret = 0 THEN Err(FDS_ERR_BUFFER, zoned.str)
            ELSE Ok(size_used + zoned.ret, zoned.str)

\* The fraction: snprintf ".%0*" PRIu32 with frac_width and frac
RenderFraction(tm, tv_nsec, s, size_remain, size_used, fm, utc_time) ==
    LET part == FractionOf(fm, tv_nsec)
        text == <<46>> \o ZeroPadded(part.frac, part.width)
        ret  == Len(text)
    IN  IF ~part.ok THEN Err(FDS_ERR_ARG, s)
        ELSE IF part.width > 0 THEN
            IF ret >= size_remain THEN Err(FDS_ERR_BUFFER, snprintf(s, size_used, size_remain, text))
            ELSE RenderZone(tm, snprintf(s, size_used, size_remain, text),
                            size_remain - ret, size_used + ret, utc_time)
        ELSE RenderZone(tm, s, size_remain, size_used, utc_time)

\* The common part: strftime "%FT%T"
RenderBase(tm, tv_nsec, s, capacity, fm, utc_time) ==
    LET base == strftime(s, 0, capacity, BaseText(tm))
    IN  IF base.ret = 0 THEN Err(FDS_ERR_BUFFER, base.str)
        ELSE RenderFraction(tm, tv_nsec, base.str, capacity - base.ret, base.ret, fm, utc_time)

\* The calendar conversion of the decoded time t
RenderTimespec(t, s, capacity, selector, zone) ==
    LET utc_time == ~LocalBit(selector)
        fm == IF utc_time THEN selector ELSE LowBits(selector)
        timestamp == IF utc_time THEN gmtime_r(t.tv_sec) ELSE localtime_r(t.tv_sec, zone)
    IN  IF ~timestamp.ok THEN Err(FDS_ERR_ARG, s)
        ELSE RenderBase(timestamp, t.tv_nsec, s, capacity, fm, utc_time)

fds_datetime2str_be(f, sz, ty, s, capacity, selector, zone) ==
    LET g == fds_get_datetime_hp_be(f, sz, ty, TsInit)
    IN  IF g.rc # FDS_OK THEN Err(FDS_ERR_ARG, s)
        ELSE RenderTimespec(g.ts, s, capacity, selector, zone)

wrapper_ts_sec_be(f, sz, s, capacity) ==
    fds_datetime2str_be(f, sz, FDS_ET_DATE_TIME_SECONDS, s, capacity, FDS_CONVERT_TF_SEC_UTC, 0)

wrapper_ts_msec_be(f, sz, s, capacity) ==
    fds_datetime2str_be(f, sz, FDS_ET_DATE_TIME_MILLISECONDS, s, capacity,
                        FDS_CONVERT_TF_MSEC_UTC, 0)

wrapper_ts_usec_be(f, sz, s, capacity) ==
    fds_datetime2str_be(f, sz, FDS_ET_DATE_TIME_MICROSECONDS, s, capacity,
                        FDS_CONVERT_TF_USEC_UTC, 0)

wrapper_ts_nsec_be(f, sz, s, capacity) ==
    fds_datetime2str_be(f, sz, FDS_ET_DATE_TIME_NANOSECONDS, s, capacity,
                        FDS_CONVERT_TF_NSEC_UTC, 0)

(***************************************************************************)
(* String: the UTF-8 scanners                                              *)
(*                                                                         *)
(* The scanners take the field f of sz bytes and the offset pos (from 0)   *)
(* of the character they look at; len is the number of bytes from pos to   *)
(* the end of the field.                                                   *)
(***************************************************************************)
\* A byte with the top bit set
IsTailAnyHighByte(b) == AndByte(b, 128) = 128

\* A byte of the form 10xx xxxx
IsTail(b) == AndByte(b, 192) = 128

\* Length 1..4 of the valid character at pos, 0 when it is not valid
utf8char_is_valid(f, pos, len) ==
    LET b == f[pos + 1]
    IN  IF AndByte(b, 128) = 0 THEN 1
        ELSE IF AndByte(b, 224) = 192 /\ len >= 2 THEN
            (IF IsTail(f[pos + 2]) THEN 2 ELSE 0)
        ELSE IF AndByte(b, 240) = 224 /\ len >= 3 THEN
            (IF IsTail(f[pos + 2]) /\ IsTail(f[pos + 3]) THEN 3 ELSE 0)
        ELSE IF AndByte(b, 248) = 240 /\ len >= 4 THEN
            (IF IsTail(f[pos + 2]) /\ IsTail(f[pos + 3]) /\ IsTail(f[pos + 4]) THEN 4 ELSE 0)
        ELSE 0

\* C0 control characters and the bytes 0x80..0x9F
IsC1(b) == b >= 128 /\ b <= 159

utf8char_is_control(f, pos, len) ==
    LET b == f[pos + 1]
    IN  (b <= 31 \/ b = 127) \/ IsC1(b)

\* The replacement of an escapable character: '\a' 'a', '\n' 'n', '\r' 'r',
\* '\t' 't', '\b' 'b', '\f' 'f', '\v' 'v'; 0 when the character is not
\* escapable
utf8char_is_escapable(f, pos, len) ==
    LET b == f[pos + 1]
    IN  IF AndByte(b, 128) # 0 THEN 0
        ELSE CASE b = 7  -> 97
               [] b = 10 -> 110
               [] b = 13 -> 114
               [] b = 9  -> 116
               [] b = 8  -> 98
               [] b = 12 -> 102
               [] b = 11 -> 118
               [] OTHER  -> 0

\* The number of bytes the scan goes on by after a character
StepOfInvalidSkipsFour(is_valid) == IF is_valid > 0 THEN is_valid ELSE 4

StepOfInvalidSkipsTwo(is_valid) == IF is_valid > 0 THEN is_valid ELSE 2

StepOf(is_valid) == IF is_valid > 0 THEN is_valid ELSE 1

\* The replacement of an invalid character: U+FFFD in UTF-8
ReplacementRaw == <<255, 253>>

REPLACEMENT_CHARACTER == <<239, 191, 189>>

\* "\xHH" of a control character
ControlTextLowercase(b) ==
    LET digit(n) == IF n < 10 THEN 48 + n ELSE 97 - 10 + n
    IN  <<92, 120, digit(b \div 16), digit(b % 16)>>

\* "\u00HH", 6 bytes
ControlTextUnicode(b) == <<92, 117, 48, 48>> \o HexPair(b)

ControlText(b) == <<92, 120>> \o HexPair(b)

\* The check after the loop: the rest of the copy region and the terminator
TailNoRoomNoTerminator(copy_len, out_remaining) == copy_len > out_remaining

TailNoRoom(copy_len, out_remaining) == copy_len + 1 > out_remaining

\* The loop of fds_string2str from pos_in on and the code after the loop
RECURSIVE String2StrLoop(_, _, _, _, _, _, _)
String2StrLoop(f, sz, capacity, pos_in, pos_copy, pos_out, s) ==
    IF pos_in < sz THEN
        LET char_max     == sz - pos_in
            is_valid     == utf8char_is_valid(f, pos_in, char_max)
            subst        == utf8char_is_escapable(f, pos_in, char_max)
            is_escapable == subst # 0
            is_control   == utf8char_is_control(f, pos_in, char_max)
            step         == StepOf(is_valid)
            copy_len     == pos_in - pos_copy
            out_remaining == (capacity - pos_out) - copy_len
            copied       == WriteAt(s, pos_out, SubSeq(f, pos_copy + 1, pos_copy + copy_len))
            out          == pos_out + copy_len
            changed      == IF is_escapable THEN <<92, subst>>
                            ELSE IF is_control THEN ControlText(f[pos_in + 1])
                            ELSE REPLACEMENT_CHARACTER
            subst_len    == Len(changed)
        IN  IF is_valid > 0 /\ ~is_escapable /\ ~is_control
            THEN String2StrLoop(f, sz, capacity, pos_in + step, pos_copy, pos_out, s)
            ELSE IF copy_len > capacity - pos_out THEN Err(FDS_ERR_BUFFER, s)
            ELSE IF out_remaining < subst_len THEN Err(FDS_ERR_BUFFER, copied)
            ELSE String2StrLoop(f, sz, capacity, pos_in + step, pos_in + 1,
                                out + subst_len, WriteAt(copied, out, changed))
    ELSE
        LET copy_len == sz - pos_copy
            out_remaining == capacity - pos_out
        IN  IF TailNoRoom(copy_len, out_remaining) THEN Err(FDS_ERR_BUFFER, s)
            ELSE Ok(pos_out + copy_len,
                    WriteAt(s, pos_out, SubSeq(f, pos_copy + 1, pos_copy + copy_len) \o <<NUL>>))

\* The check before the loop: the output buffer is definitely small
FastRejectDoubled(sz, capacity) == 2 * sz + 1 > capacity

FastReject(sz, capacity) == sz + 1 > capacity

fds_string2str(f, sz, s, capacity) ==
    IF FastReject(sz, capacity) THEN Err(FDS_ERR_BUFFER, s)
    ELSE String2StrLoop(f, sz, capacity, 0, 0, 0, s)

RECURSIVE Utf8CheckLoop(_, _, _)
Utf8CheckLoop(f, sz, idx) ==
    IF idx < sz THEN
        LET step == utf8char_is_valid(f, idx, sz - idx)
        IN  IF step = 0 THEN FDS_ERR_ARG ELSE Utf8CheckLoop(f, sz, idx + step)
    ELSE FDS_OK

fds_string_utf8check(f, sz) == Utf8CheckLoop(f, sz, 0)

(***************************************************************************)
(* The memory accesses of the string functions: the indices, from 0, of    *)
(* the bytes of the field they read and of the bytes of the output buffer  *)
(* they write, and the positions of their scans.                           *)
(***************************************************************************)
\* The indices utf8char_is_valid reads for the character at pos, of which at
\* most len bytes belong to the field: str[0]; str[1]; the uint16_t at
\* str[1]; the uint32_t at str[0]
ValidReads(f, pos, len) ==
    LET b == f[pos + 1]
    IN  IF AndByte(b, 128) = 0 THEN {pos}
        ELSE IF AndByte(b, 224) = 192 /\ len >= 2 THEN {pos, pos + 1}
        ELSE IF AndByte(b, 240) = 224 /\ len >= 3 THEN {pos, pos + 1, pos + 2}
        ELSE IF AndByte(b, 248) = 240 /\ len >= 4 THEN pos..(pos + 3)
        ELSE {pos}

\* memcpy(&ptr_out[pos_out], &ptr_in[pos_copy], copy_len) added to acc
Memcpy(acc, pos_out, pos_copy, copy_len) ==
    [acc EXCEPT !.reads = @ \cup (pos_copy..(pos_copy + copy_len - 1)),
                !.writes = @ \cup (pos_out..(pos_out + copy_len - 1))]

\* The accesses of the loop of fds_string2str from pos_in on and of the code
\* after the loop, added to acc
RECURSIVE String2StrAccess(_, _, _, _, _, _, _)
String2StrAccess(f, sz, capacity, pos_in, pos_copy, pos_out, acc) ==
    IF pos_in < sz THEN
        LET char_max     == sz - pos_in
            is_valid     == utf8char_is_valid(f, pos_in, char_max)
            subst        == utf8char_is_escapable(f, pos_in, char_max)
            is_escapable == subst # 0
            is_control   == utf8char_is_control(f, pos_in, char_max)
            step         == StepOf(is_valid)
            copy_len     == pos_in - pos_copy
            out_remaining == (capacity - pos_out) - copy_len
            out          == pos_out + copy_len
            subst_len    == IF is_escapable THEN 2 ELSE IF is_control THEN 4 ELSE 3
            looked       == [acc EXCEPT !.reads = @ \cup ValidReads(f, pos_in, char_max),
                                        !.pos = pos_in]
            stepped      == [looked EXCEPT !.steps = Append(@, step), !.pos = pos_in + step]
            copied       == Memcpy(stepped, pos_out, pos_copy, copy_len)
        IN  IF is_valid > 0 /\ ~is_escapable /\ ~is_control
            THEN String2StrAccess(f, sz, capacity, pos_in + step, pos_copy, pos_out, stepped)
            ELSE IF copy_len > capacity - pos_out THEN looked
            ELSE IF out_remaining < subst_len
                 THEN Memcpy(looked, pos_out, pos_copy, copy_len)
            ELSE String2StrAccess(f, sz, capacity, pos_in + step, pos_in + 1, out + subst_len,
                     [copied EXCEPT !.writes = @ \cup (out..(out + subst_len - 1))])
    ELSE
        LET copy_len == sz - pos_copy
            out_remaining == capacity - pos_out
            finished == [acc EXCEPT !.pos = pos_in, !.ended = TRUE]
        IN  IF TailNoRoom(copy_len, out_remaining) THEN finished
            ELSE [Memcpy(finished, pos_out, pos_copy, copy_len)
                     EXCEPT !.writes = @ \cup {pos_out + copy_len}]

\* The accesses of fds_string2str
fds_string2str_access(f, sz, capacity) ==
    IF FastReject(sz, capacity) THEN NoAccess
    ELSE String2StrAccess(f, sz, capacity, 0, 0, 0, NoAccess)

\* The accesses of the loop of fds_string_utf8check from idx on
RECURSIVE Utf8CheckAccess(_, _, _, _)
Utf8CheckAccess(f, sz, idx, acc) ==
    IF idx < sz THEN
        LET step   == utf8char_is_valid(f, idx, sz - idx)
            looked == [acc EXCEPT !.reads = @ \cup ValidReads(f, idx, sz - idx), !.pos = idx]
        IN  IF step = 0 THEN looked
            ELSE Utf8CheckAccess(f, sz, idx + step,
                     [looked EXCEPT !.steps = Append(@, step), !.pos = idx + step])
    ELSE [acc EXCEPT !.pos = idx, !.ended = TRUE]

fds_string_utf8check_access(f, sz) == Utf8CheckAccess(f, sz, 0, NoAccess)

(***************************************************************************)
(* Universal renderer                                                      *)
(***************************************************************************)
\* enum fds_iemgr_element_type in the order of its values, from 0; the
\* value of FDS_ET_UNASSIGNED is 255
ElementTypes ==
    <<"FDS_ET_OCTET_ARRAY",
      "FDS_ET_UNSIGNED_8", "FDS_ET_UNSIGNED_16", "FDS_ET_UNSIGNED_32", "FDS_ET_UNSIGNED_64",
      "FDS_ET_SIGNED_8", "FDS_ET_SIGNED_16", "FDS_ET_SIGNED_32", "FDS_ET_SIGNED_64",
      "FDS_ET_FLOAT_32", "FDS_ET_FLOAT_64",
      "FDS_ET_BOOLEAN", "FDS_ET_MAC_ADDRESS", "FDS_ET_STRING",
      FDS_ET_DATE_TIME_SECONDS, FDS_ET_DATE_TIME_MILLISECONDS,
      FDS_ET_DATE_TIME_MICROSECONDS, FDS_ET_DATE_TIME_NANOSECONDS,
      "FDS_ET_IPV4_ADDRESS", "FDS_ET_IPV6_ADDRESS",
      "FDS_ET_BASIC_LIST", "FDS_ET_SUB_TEMPLATE_LIST", "FDS_ET_SUB_TEMPLATE_MULTILIST">>

FDS_ET_UNASSIGNED == "FDS_ET_UNASSIGNED"

TypeValue(ty) ==
    IF ty = FDS_ET_UNASSIGNED THEN 255
    ELSE (CHOOSE i \in 1..Len(ElementTypes) : ElementTypes[i] = ty) - 1

\* The conversion table with the signed integers given to the unsigned renderer
ConverterTableUnsignedOnly ==
    <<"fds_octet_array2str",
      "fds_uint2str_be", "fds_uint2str_be", "fds_uint2str_be", "fds_uint2str_be",
      "fds_uint2str_be", "fds_uint2str_be", "fds_uint2str_be", "fds_uint2str_be",
      "fds_float2str_be", "fds_float2str_be",
      "wrapper_bool", "fds_mac2str", "fds_string2str",
      "wrapper_ts_sec_be", "wrapper_ts_msec_be", "wrapper_ts_usec_be", "wrapper_ts_nsec_be",
      "wrapper_ip4", "wrapper_ip6">>

\* The conversion table of fds_field2str_be
ConverterTable ==
    <<"fds_octet_array2str",
      "fds_uint2str_be", "fds_uint2str_be", "fds_uint2str_be", "fds_uint2str_be",
      "fds_int2str_be", "fds_int2str_be", "fds_int2str_be", "fds_int2str_be",
      "fds_float2str_be", "fds_float2str_be",
      "wrapper_bool", "fds_mac2str", "fds_string2str",
      "wrapper_ts_sec_be", "wrapper_ts_msec_be", "wrapper_ts_usec_be", "wrapper_ts_nsec_be",
      "wrapper_ip4", "wrapper_ip6">>

\* table[...](field, size, str, str_size)
CallConverter(fn, f, sz, s, capacity) ==
    CASE fn = "fds_octet_array2str" -> fds_octet_array2str(f, sz, s, capacity)
      [] fn = "fds_uint2str_be"     -> fds_uint2str_be(f, sz, s, capacity)
      [] fn = "fds_int2str_be"      -> fds_int2str_be(f, sz, s, capacity)
      [] fn = "fds_float2str_be"    -> fds_float2str_be(f, sz, s, capacity)
      [] fn = "wrapper_bool"        -> wrapper_bool(f, sz, s, capacity)
      [] fn = "fds_mac2str"         -> fds_mac2str(f, sz, s, capacity)
      [] fn = "fds_string2str"      -> fds_string2str(f, sz, s, capacity)
      [] fn = "wrapper_ts_sec_be"   -> wrapper_ts_sec_be(f, sz, s, capacity)
      [] fn = "wrapper_ts_msec_be"  -> wrapper_ts_msec_be(f, sz, s, capacity)
      [] fn = "wrapper_ts_usec_be"  -> wrapper_ts_usec_be(f, sz, s, capacity)
      [] fn = "wrapper_ts_nsec_be"  -> wrapper_ts_nsec_be(f, sz, s, capacity)
      [] fn = "wrapper_ip4"         -> wrapper_ip4(f, sz, s, capacity)
      [] fn = "wrapper_ip6"         -> wrapper_ip6(f, sz, s, capacity)

fds_field2str_be(f, sz, ty, s, capacity) ==
    LET table_size == Len(ConverterTable)
    IN  IF TypeValue(ty) >= table_size THEN Err(FDS_ERR_FORMAT, s)
        ELSE CallConverter(ConverterTable[TypeValue(ty) + 1], f, sz, s, capacity)

(***************************************************************************)
(* The renderer calls.  A run draws the element type, the field, its size, *)
(* the size of the output buffer, the format selector and the time zone of *)
(* the host, and applies one renderer: the universal one, or the renderer  *)
(* of the element type.                                                    *)
(***************************************************************************)
\* The setters and getters do not run in the runs of the renderers
codecvars == <<little, op_set, op_get, field, field0, size, type, in_value, in_ts,
               rc_set, rc_get, value, ts>>

CodecIdle ==
    /\ field0 = field
    /\ op_set = "none"
    /\ op_get = "none"
    /\ in_value = Rep(0, 8)
    /\ in_ts = NoTs
    /\ rc_set = "none"
    /\ rc_get = "none"
    /\ value = OutInit
    /\ ts = TsInit

\* The output buffer before the call
StrInit(capacity) == Rep(165, capacity)

\* Sizes of output buffers 0..MaxTextCap are tried for the renderers with a
\* fixed minimal size, 0..MaxBoolCap for the boolean
MaxTextCap == 26
MaxBoolCap == 7

UnsignedTypes ==
    {"FDS_ET_UNSIGNED_8", "FDS_ET_UNSIGNED_16", "FDS_ET_UNSIGNED_32", "FDS_ET_UNSIGNED_64"}

SignedTypes ==
    {"FDS_ET_SIGNED_8", "FDS_ET_SIGNED_16", "FDS_ET_SIGNED_32", "FDS_ET_SIGNED_64"}

FloatTypes == {"FDS_ET_FLOAT_32", "FDS_ET_FLOAT_64"}

UnsupportedTypes ==
    {"FDS_ET_BASIC_LIST", "FDS_ET_SUB_TEMPLATE_LIST", "FDS_ET_SUB_TEMPLATE_MULTILIST",
     FDS_ET_UNASSIGNED}

\* Wire content of integer fields: 0, -1, the extremes and mixed bytes
IntFields ==
    {Rep(0, 8), Rep(255, 8), <<128, 0, 0, 0, 0, 0, 0, 0>>,
     <<127, 255, 255, 255, 255, 255, 255, 255>>, <<1, 35, 69, 103, 137, 171, 205, 239>>}

\* 192.0.2.1 and addresses of the shortest and the longest text
Ip4Fields == {<<192, 0, 2, 1>>, <<0, 0, 0, 0>>, <<255, 255, 255, 255>>, <<10, 200, 3, 44>>}

Ip6Fields == DOMAIN Ip6Texts

MacFields == {<<0, 0, 0, 0, 0, 0, 9>>, <<255, 255, 255, 255, 255, 255, 9>>,
              <<0, 27, 196, 10, 159, 254, 9>>}

OctetFields == {<<>>, <<0>>, <<171>>, <<9, 240>>, <<222, 173, 190>>}

\* Finite floats and doubles, and the infinities and NaNs of both signs
Float4Fields ==
    {k[2] : k \in {k \in DOMAIN PrintfG : k[1] = 4}}
    \cup {<<127, 128, 0, 0>>, <<255, 128, 0, 0>>, <<127, 192, 0, 0>>, <<255, 192, 0, 1>>}

Float8Fields ==
    {k[2] : k \in {k \in DOMAIN PrintfG : k[1] = 8}}
    \cup {<<127, 240, 0, 0, 0, 0, 0, 0>>, <<255, 240, 0, 0, 0, 0, 0, 0>>,
          <<127, 248, 0, 0, 0, 0, 0, 0>>, <<255, 240, 0, 0, 0, 0, 0, 1>>}

\* Strings given to the universal renderer
TextStrings == {<<>>, <<65, 10, 195, 40>>, <<195, 169, 0>>, <<34, 92>>}

\* Timestamp fields: NTP seconds and fractions, and milliseconds since 1970
NtpFields ==
    {a \o b : a \in {<<0, 0, 0, 0>>, <<131, 170, 126, 128>>, <<205, 64, 128, 82>>},
              b \in {<<0, 0, 0, 0>>, <<0, 0, 16, 198>>, <<128, 0, 0, 0>>,
                     <<255, 255, 255, 254>>}}

MsFields == {MsOf(0, 0), MsOf(1234567890, 123), MsOf(2085978495, 999), MsOf(951782400, 7)}

\* Format selectors: the 8 of enum fds_convert_time_fmt and others
FmtSelectors == {0, 1, 2, 3, 4, 5, 16, 17, 18, 19, 20, 21, 33, 49}

\* Time zones of the host, in minutes east of UTC
TimeZones == {60, -330}

\* Sizes of the output buffer given to the timestamp renderer
TimeCaps == {0, 19, 20, 21, 23, 24, 27, 30, 31, 32, 35, 36, 40}

InitText ==
    /\ \/ /\ type = "FDS_ET_BOOLEAN"
          /\ little = FALSE /\ fmt = 0 /\ tz = 0
          /\ size \in 0..2
          /\ field \in {<<b, 1>> : b \in Byte}
          /\ str_size \in 0..MaxBoolCap
       \/ /\ type \in UnsignedTypes \cup SignedTypes
          /\ little \in BOOLEAN /\ fmt = 0 /\ tz = 0
          /\ size \in 0..MaxSize
          /\ field \in IntFields
          /\ str_size \in 0..MaxTextCap
       \/ /\ type = "FDS_ET_IPV4_ADDRESS"
          /\ little = FALSE /\ fmt = 0 /\ tz = 0
          /\ size \in {0, 3, 4}
          /\ field \in Ip4Fields
          /\ str_size \in 0..MaxTextCap
       \/ /\ type = "FDS_ET_IPV6_ADDRESS"
          /\ little = FALSE /\ fmt = 0 /\ tz = 0
          /\ size \in {4, 15, 16}
          /\ field \in Ip6Fields
          /\ str_size \in 0..MaxTextCap
       \/ /\ type = "FDS_ET_MAC_ADDRESS"
          /\ little = FALSE /\ fmt = 0 /\ tz = 0
          /\ size \in {0, 5, 6, 7}
          /\ field \in MacFields
          /\ str_size \in 0..MaxTextCap
       \/ /\ type = "FDS_ET_OCTET_ARRAY"
          /\ little = FALSE /\ fmt = 0 /\ tz = 0
          /\ field \in OctetFields
          /\ size = Len(field)
          /\ str_size \in 0..MaxBoolCap
       \/ /\ type \in FloatTypes
          /\ little \in BOOLEAN /\ fmt = 0 /\ tz = 0
          /\ \/ size = 4 /\ field \in Float4Fields
             \/ size = 8 /\ field \in Float8Fields
             \/ size \in {0, 2, 9} /\ field = Rep(0, 8)
          /\ str_size \in 0..MaxTextCap
       \/ /\ type = "FDS_ET_STRING"
          /\ little = FALSE /\ fmt = 0 /\ tz = 0
          /\ field \in TextStrings
          /\ size = Len(field)
          /\ str_size \in 0..MaxBoolCap + 1
       \/ /\ type \in UnsupportedTypes
          /\ little = FALSE /\ fmt = 0 /\ tz = 0
          /\ size \in {0, 1, 4, 8}
          /\ field \in {Rep(1, 8), <<65, 10, 195, 40, 0, 0, 0, 0>>}
          /\ str_size \in {0, 1, MaxTextCap}
       \/ /\ type \in TimeTypes
          /\ fmt \in FmtSelectors
          /\ little \in (IF LocalBit(fmt) THEN {TRUE} ELSE BOOLEAN)
          /\ tz \in (IF LocalBit(fmt) THEN TimeZones ELSE {0})
          /\ \/ size = TimeSize(type)
             \/ size \in {0, 4, 8} /\ fmt \in {FDS_CONVERT_TF_NSEC_UTC, 0}
          /\ field \in (IF type = FDS_ET_DATE_TIME_MILLISECONDS THEN MsFields ELSE NtpFields)
          /\ str_size \in TimeCaps
    /\ pc = "start"
    /\ CodecIdle
    /\ op_str = "none"
    /\ rc_str = [rc |-> "none", len |-> 0]
    /\ rc_chk = "none"
    /\ rc_chk_out = "none"
    /\ mem_str = NoAccess
    /\ mem_chk = NoAccess
    /\ str = StrInit(str_size)

\* A renderer named fn has run and has left r
Rendered(fn, r) ==
    /\ pc = "start"
    /\ pc' = "rendered"
    /\ op_str' = fn
    /\ rc_str' = [rc |-> r.rc, len |-> r.len]
    /\ str' = r.str
    /\ UNCHANGED <<codecvars, tz, str_size, fmt, rc_chk, rc_chk_out, mem_str, mem_chk>>

Field2Str ==
    /\ type \in {ElementTypes[i] : i \in 1..Len(ElementTypes)} \cup {FDS_ET_UNASSIGNED}
    /\ Rendered("fds_field2str_be", fds_field2str_be(field, size, type, str, str_size))

Bool2Str ==
    /\ type = "FDS_ET_BOOLEAN"
    /\ Rendered("fds_bool2str", fds_bool2str(field, str, str_size))

Uint2Str ==
    /\ type \in UnsignedTypes
    /\ Rendered("fds_uint2str_be", fds_uint2str_be(field, size, str, str_size))

Int2Str ==
    /\ type \in SignedTypes
    /\ Rendered("fds_int2str_be", fds_int2str_be(field, size, str, str_size))

Float2Str ==
    /\ type \in FloatTypes
    /\ Rendered("fds_float2str_be", fds_float2str_be(field, size, str, str_size))

Mac2Str ==
    /\ type = "FDS_ET_MAC_ADDRESS"
    /\ Rendered("fds_mac2str", fds_mac2str(field, size, str, str_size))

Ip2Str ==
    /\ type \in {"FDS_ET_IPV4_ADDRESS", "FDS_ET_IPV6_ADDRESS"}
    /\ Rendered("fds_ip2str", fds_ip2str(field, size, str, str_size))

OctetArray2Str ==
    /\ type = "FDS_ET_OCTET_ARRAY"
    /\ Rendered("fds_octet_array2str", fds_octet_array2str(field, size, str, str_size))

Datetime2Str ==
    /\ type \in TimeTypes
    /\ Rendered("fds_datetime2str_be",
                fds_datetime2str_be(field, size, type, str, str_size, fmt, tz))

NextText ==
    \/ Field2Str \/ Bool2Str \/ Uint2Str \/ Int2Str \/ Float2Str \/ Mac2Str \/ Ip2Str
    \/ OctetArray2Str \/ Datetime2Str

SpecText == InitText /\ [][NextText]_vars

(***************************************************************************)
(* The string calls.  A run draws a field and the size of the output       *)
(* buffer, validates the field with fds_string_utf8check, renders it with  *)
(* fds_string2str and validates the text the renderer has returned.        *)
(***************************************************************************)
\* Fields are all the byte strings of at most MaxStrLen bytes over
\* 'A', LF, a generic control, a 2-byte lead and a continuation byte ...
MaxStrLen == 4

StrAlphabet == {65, 10, 31, 195, 169}

RECURSIVE StringsOver(_, _)
StringsOver(alphabet, n) ==
    IF n = 0 THEN {<<>>}
    ELSE LET shorter == StringsOver(alphabet, n - 1)
         IN  shorter \cup {x \o <<b>> : x \in {y \in shorter : Len(y) = n - 1}, b \in alphabet}

\* ... every byte value alone, after the lead of a 3-byte sequence, and
\* before an ASCII character and one to three continuation bytes ...
ProbeStrings ==
    {pre \o <<b>> \o post : pre \in {<<>>, <<226>>}, b \in Byte,
                            post \in {<<>>, <<128>>, <<191, 191, 191>>, <<40>>}}

\* ... and the quote, the backslash and the example A, LF, 0xC3, '('
StrFields ==
    StringsOver(StrAlphabet, MaxStrLen) \cup ProbeStrings
        \cup {<<65, 10, 195, 40>>, <<34, 92>>, <<92, 110, 34, 65>>}

\* The largest output buffer: the worst case of the escaped text and one more
MaxStrCap(f) == 4 * Len(f) + 2

InitStr ==
    /\ type = "FDS_ET_STRING"
    /\ little = FALSE
    /\ fmt = 0
    /\ tz = 0
    /\ field \in StrFields
    /\ size = Len(field)
    /\ str_size \in 0..MaxStrCap(field)
    /\ pc = "start"
    /\ CodecIdle
    /\ op_str = "none"
    /\ rc_str = [rc |-> "none", len |-> 0]
    /\ rc_chk = "none"
    /\ rc_chk_out = "none"
    /\ mem_str = NoAccess
    /\ mem_chk = NoAccess
    /\ str = StrInit(str_size)

Utf8CheckField ==
    /\ pc = "start"
    /\ pc' = "checked"
    /\ rc_chk' = fds_string_utf8check(field, size)
    /\ mem_chk' = fds_string_utf8check_access(field, size)
    /\ UNCHANGED <<codecvars, tz, str, str_size, fmt, op_str, rc_str, rc_chk_out, mem_str>>

String2Str ==
    /\ pc = "checked"
    /\ pc' = "rendered"
    /\ op_str' = "fds_string2str"
    /\ LET r == fds_string2str(field, size, str, str_size)
       IN  /\ rc_str' = [rc |-> r.rc, len |-> r.len]
           /\ str' = r.str
    /\ mem_str' = fds_string2str_access(field, size, str_size)
    /\ UNCHANGED <<codecvars, tz, str_size, fmt, rc_chk, rc_chk_out, mem_chk>>

\* The text the renderer has returned: the first len bytes of the buffer
Utf8CheckText ==
    /\ pc = "rendered"
    /\ rc_str.rc = FDS_OK
    /\ pc' = "rechecked"
    /\ rc_chk_out' = fds_string_utf8check(SubSeq(str, 1, rc_str.len), rc_str.len)
    /\ mem_chk' = fds_string_utf8check_access(SubSeq(str, 1, rc_str.len), rc_str.len)
    /\ UNCHANGED <<codecvars, tz, str, str_size, fmt, op_str, rc_str, rc_chk, mem_str>>

NextStr == Utf8CheckField \/ String2Str \/ Utf8CheckText

SpecStr == InitStr /\ [][NextStr]_vars

(***************************************************************************)
(* Properties of the renderers                                             *)
(***************************************************************************)
\* The text a renderer has returned
TextNow == SubSeq(str, 1, rc_str.len)

\* The call has returned n and left text, with a zero byte right after it
Returned(n, text) ==
    /\ rc_str.rc = FDS_OK
    /\ rc_str.len = n
    /\ n = Len(text)
    /\ n + 1 <= str_size
    /\ TextNow = text
    /\ str[n + 1] = 0

\* The call has failed with code and has left the buffer as it was
Refused(code) ==
    /\ rc_str.rc = code
    /\ str = StrInit(str_size)

\* Outcome of rendering the boolean byte b into str_size bytes
BoolOutcome(b) ==
    CASE b = 1 -> IF str_size < 5 THEN rc_str.rc = FDS_ERR_BUFFER
                  ELSE Returned(4, <<116, 114, 117, 101>>)
      [] b = 2 -> IF str_size < 6 THEN rc_str.rc = FDS_ERR_BUFFER
                  ELSE Returned(5, <<102, 97, 108, 115, 101>>)
      [] OTHER -> rc_str.rc = FDS_ERR_ARG

\* C11: a boolean field is one byte, 1 is true and 2 is false and any other
\* byte is an argument error; fds_bool2str writes "true" and returns 4 or
\* "false" and returns 5, fails with the buffer error exactly when the
\* capacity is less than the text and its terminator, and puts the zero byte
\* at the index it returns; fds_field2str_be on a boolean whose size is not
\* 1 is an argument error and otherwise does the same.
C11_BoolRender ==
    /\ type = "FDS_ET_BOOLEAN" =>
         LET d == fds_get_bool(field, 1, FALSE)
         IN  /\ field[1] = 1 => d.rc = FDS_OK /\ d.value = TRUE
             /\ field[1] = 2 => d.rc = FDS_OK /\ d.value = FALSE
             /\ field[1] \notin {1, 2} => d.rc = FDS_ERR_ARG
             /\ fds_get_bool(field, size, FALSE).rc = FDS_OK => size = 1
    /\ op_str = "fds_bool2str" => BoolOutcome(field[1])
    /\ (op_str = "fds_field2str_be" /\ type = "FDS_ET_BOOLEAN") =>
         IF size # 1 THEN rc_str.rc = FDS_ERR_ARG ELSE BoolOutcome(field[1])

\* "false" has been rendered into a buffer of exactly 6 bytes
C11_Witness ==
    /\ op_str = "fds_bool2str"
    /\ field[1] = 2
    /\ str_size = 6
    /\ rc_str = [rc |-> FDS_OK, len |-> 5]
    /\ str[6] = 0

\* The renderer the conversion table holds for the element type ty, applied
\* to the arguments of the call
PerTypeRenderer(ty) ==
    CASE ty = "FDS_ET_OCTET_ARRAY"  -> fds_octet_array2str(field, size, StrInit(str_size), str_size)
      [] ty \in UnsignedTypes       -> fds_uint2str_be(field, size, StrInit(str_size), str_size)
      [] ty \in SignedTypes         -> fds_int2str_be(field, size, StrInit(str_size), str_size)
      [] ty \in FloatTypes          -> fds_float2str_be(field, size, StrInit(str_size), str_size)
      [] ty = "FDS_ET_BOOLEAN"      -> wrapper_bool(field, size, StrInit(str_size), str_size)
      [] ty = "FDS_ET_MAC_ADDRESS"  -> fds_mac2str(field, size, StrInit(str_size), str_size)
      [] ty = "FDS_ET_STRING"       -> fds_string2str(field, size, StrInit(str_size), str_size)
      [] ty = FDS_ET_DATE_TIME_SECONDS
                                    -> wrapper_ts_sec_be(field, size, StrInit(str_size), str_size)
      [] ty = FDS_ET_DATE_TIME_MILLISECONDS
                                    -> wrapper_ts_msec_be(field, size, StrInit(str_size), str_size)
      [] ty = FDS_ET_DATE_TIME_MICROSECONDS
                                    -> wrapper_ts_usec_be(field, size, StrInit(str_size), str_size)
      [] ty = FDS_ET_DATE_TIME_NANOSECONDS
                                    -> wrapper_ts_nsec_be(field, size, StrInit(str_size), str_size)
      [] ty = "FDS_ET_IPV4_ADDRESS" -> wrapper_ip4(field, size, StrInit(str_size), str_size)
      [] ty = "FDS_ET_IPV6_ADDRESS" -> wrapper_ip6(field, size, StrInit(str_size), str_size)

\* The 20 tags from octetArray to ipv6Address
SupportedTypes ==
    {"FDS_ET_OCTET_ARRAY", "FDS_ET_BOOLEAN", "FDS_ET_MAC_ADDRESS", "FDS_ET_STRING",
     "FDS_ET_IPV4_ADDRESS", "FDS_ET_IPV6_ADDRESS"}
        \cup UnsignedTypes \cup SignedTypes \cup FloatTypes \cup TimeTypes

\* C12: fds_field2str_be returns FDS_ERR_FORMAT for every type tag outside
\* the 20 supported ones, whatever the field, its size and the capacity, and
\* leaves the output buffer as it was; for a supported tag it never returns
\* FDS_ERR_FORMAT, and its result and the buffer are those of the renderer
\* of that type called with the same arguments.
C12_DispatchClosure ==
    op_str = "fds_field2str_be" =>
        IF type \notin SupportedTypes THEN Refused(FDS_ERR_FORMAT)
        ELSE LET r == PerTypeRenderer(type)
             IN  /\ rc_str.rc # FDS_ERR_FORMAT
                 /\ rc_str = [rc |-> r.rc, len |-> r.len]
                 /\ str = r.str

\* A sub-template list has been refused and the buffer is untouched
C12_Witness ==
    /\ op_str = "fds_field2str_be"
    /\ type = "FDS_ET_SUB_TEMPLATE_LIST"
    /\ size = 8
    /\ str_size > 1
    /\ Cardinality(SupportedTypes) = 20
    /\ rc_str.rc = FDS_ERR_FORMAT
    /\ str = StrInit(str_size)

\* C19: the integer renderers, given a valid size 1..8, fail with the buffer
\* error exactly when the capacity is less than 21, fds_ip2str on a 4-byte
\* field exactly when it is less than 16 and fds_mac2str on a 6-byte field
\* exactly when it is less than 18, whatever the value and however short its
\* text: 192.0.2.1 is refused with capacity 15 and returns 9 with capacity 16.
C19_FixedMinimumCapacity ==
    /\ (op_str \in {"fds_uint2str_be", "fds_int2str_be"} /\ size \in 1..8) =>
         /\ rc_str.rc = FDS_ERR_BUFFER <=> str_size < 21
         /\ str_size >= 21 => rc_str.rc = FDS_OK /\ str[rc_str.len + 1] = 0
    /\ (op_str = "fds_ip2str" /\ size = 4) =>
         /\ rc_str.rc = FDS_ERR_BUFFER <=> str_size < 16
         /\ str_size >= 16 => rc_str.rc = FDS_OK /\ rc_str.len \in 7..15
         /\ (SubSeq(field, 1, 4) = <<192, 0, 2, 1>> /\ str_size >= 16) =>
               Returned(9, <<49, 57, 50, 46, 48, 46, 50, 46, 49>>)
    /\ (op_str = "fds_mac2str" /\ size = 6) =>
         /\ rc_str.rc = FDS_ERR_BUFFER <=> str_size < 18
         /\ str_size >= 18 => rc_str.rc = FDS_OK /\ rc_str.len = 17

\* 192.0.2.1 has been rendered into 16 bytes, of which it needs 10
C19_Witness ==
    /\ op_str = "fds_ip2str"
    /\ size = 4
    /\ field = <<192, 0, 2, 1>>
    /\ str_size = 16
    /\ rc_str = [rc |-> FDS_OK, len |-> 9]
    /\ str[10] = 0

\* The 8 values of enum fds_convert_time_fmt
DefinedSelectors ==
    {FDS_CONVERT_TF_SEC_UTC, FDS_CONVERT_TF_MSEC_UTC, FDS_CONVERT_TF_USEC_UTC,
     FDS_CONVERT_TF_NSEC_UTC, FDS_CONVERT_TF_SEC_LOCAL, FDS_CONVERT_TF_MSEC_LOCAL,
     FDS_CONVERT_TF_USEC_LOCAL, FDS_CONVERT_TF_NSEC_LOCAL}

\* Digits of the fraction for the precision of a defined selector
FractionWidth(selector) == 3 * ((selector % 16) - 1)

\* 10 to the power n
RECURSIVE Pow10(_)
Pow10(n) == IF n = 0 THEN 1 ELSE 10 * Pow10(n - 1)

\* The text of C20 for the decoded time t under a defined selector: the
\* date and the time, '.' and the fraction unless the precision is seconds,
\* and 'Z' or the offset of the time zone
ShapedText(t, selector) ==
    LET w      == FractionWidth(selector)
        tm     == IF selector < 16 THEN gmtime_r(t.tv_sec) ELSE localtime_r(t.tv_sec, tz)
        digits == ZeroPadded(ToInt(t.tv_nsec) \div Pow10(9 - w), w)
    IN  BaseText(tm) \o (IF w = 0 THEN <<>> ELSE <<46>> \o digits)
            \o (IF selector < 16 THEN <<90>> ELSE ZoneText(tm))

\* C20: for every field fds_datetime2str_be decodes and every defined
\* selector the text is the date and time, then '.' and exactly 3, 6 or 9
\* digits for milli-, micro- and nanoseconds (nothing for seconds), the
\* decoded nanoseconds divided by 10^6, 10^3 or 1 and truncated, then 'Z'
\* for UTC or +hhmm/-hhmm for local time; a selector outside the 8 defined
\* values is an argument error.
C20_DatetimeShape ==
    LET g == fds_get_datetime_hp_be(field, size, type, TsInit)
    IN  (op_str = "fds_datetime2str_be" /\ g.rc = FDS_OK) =>
            IF fmt \notin DefinedSelectors THEN rc_str.rc = FDS_ERR_ARG
            ELSE LET w    == FractionWidth(fmt)
                     text == ShapedText(g.ts, fmt)
                 IN  /\ rc_str.rc \in {FDS_OK, FDS_ERR_BUFFER}
                     /\ rc_str.rc = FDS_OK =>
                          /\ Returned(Len(text), text)
                          /\ Len(text) = 19 + (IF w = 0 THEN 0 ELSE w + 1)
                                            + (IF fmt < 16 THEN 1 ELSE 5)

(***************************************************************************)
(* Properties of the string escaper                                        *)
(***************************************************************************)
\* '0'..'9', 'A'..'F'
UpperHex(n) == IF n < 10 THEN 48 + n ELSE 65 + (n - 10)

\* The letter after the backslash for the bytes 0x07..0x0D: a b t n v f r
EscapeLetter(b) == <<97, 98, 116, 110, 118, 102, 114>>[b - 6]

\* What C13 gives for the byte b of a valid input
EscapedByte(b) ==
    IF b \in 7..13 THEN <<92, EscapeLetter(b)>>
    ELSE IF b <= 31 \/ b = 127 THEN <<92, 120, UpperHex(b \div 16), UpperHex(b % 16)>>
    ELSE <<b>>

\* The left-to-right concatenation over the input
RECURSIVE EscapedValid(_)
EscapedValid(f) == IF f = <<>> THEN <<>> ELSE EscapedByte(Head(f)) \o EscapedValid(Tail(f))

SeqLenAt(f, i) ==
    LET b       == f[i + 1]
        tails(n) == /\ i + n <= Len(f)
                    /\ \A k \in 2..n : f[i + k] \in 128..191
    IN  IF b < 128 THEN 1
        ELSE IF b \in 192..223 /\ tails(2) THEN 2
        ELSE IF b \in 224..239 /\ tails(3) THEN 3
        ELSE IF b \in 240..247 /\ tails(4) THEN 4
        ELSE 0

\* Offsets at which a character of f starts when an invalid sequence counts
\* for one byte
RECURSIVE CharStarts(_, _)
CharStarts(f, i) ==
    IF i >= Len(f) THEN {}
    ELSE {i} \cup CharStarts(f, i + (IF SeqLenAt(f, i) = 0 THEN 1 ELSE SeqLenAt(f, i)))

\* The text fds_string2str gives for x in a buffer of the worst-case size
TextOf(x) ==
    LET capacity == 4 * Len(x) + 1
        r == fds_string2str(x, Len(x), StrInit(capacity), capacity)
    IN  SubSeq(r.str, 1, r.len)

\* C14: an invalid sequence at offset i costs exactly one byte of input and
\* the byte at i + 1 starts a new character: the text is the text of the
\* input up to and including offset i followed by the text of the input
\* from offset i + 1 on rendered on its own, so nothing after an invalid
\* lead is skipped; the input 41 0A C3 28 gives 41 5C 6E EF BF BD 28 and 7.
C14_Resynchronisation ==
    (op_str = "fds_string2str" /\ rc_str.rc = FDS_OK) =>
        /\ \A i \in CharStarts(field, 0) :
              SeqLenAt(field, i) = 0 =>
                  TextNow = TextOf(SubSeq(field, 1, i + 1))
                                \o TextOf(SubSeq(field, i + 2, Len(field)))
        /\ field = <<65, 10, 195, 40>> =>
              Returned(7, <<65, 92, 110, 239, 191, 189, 40>>)

\* The example: '(' after the lone lead 0xC3 has been kept
C14_Witness ==
    /\ op_str = "fds_string2str"
    /\ field = <<65, 10, 195, 40>>
    /\ SeqLenAt(field, 2) = 0
    /\ rc_str = [rc |-> FDS_OK, len |-> 7]
    /\ TextNow = <<65, 92, 110, 239, 191, 189, 40>>

\* The text of C13 and C15 for the input from offset i on: a valid sequence
\* is escaped as in C13, an invalid one is one byte and becomes U+FFFD
RECURSIVE ReplacedText(_, _)
ReplacedText(f, i) ==
    IF i >= Len(f) THEN <<>>
    ELSE LET n == SeqLenAt(f, i)
         IN  IF n = 0 THEN <<239, 191, 189>> \o ReplacedText(f, i + 1)
             ELSE EscapedValid(SubSeq(f, i + 1, i + n)) \o ReplacedText(f, i + n)

\* C15: every invalid sequence of the input (a byte at the start of a
\* character that is no lead, a lead whose sequence would end after the
\* field, a lead followed by a byte that is not 10xxxxxx) is replaced by
\* the 3 bytes EF BF BD in the output, whatever the value of the byte.
C15_InvalidReplaced ==
    (op_str = "fds_string2str" /\ rc_str.rc = FDS_OK) =>
        Returned(Len(ReplacedText(field, 0)), ReplacedText(field, 0))

\* The full escaped length of the input from offset i on: the length of
\* C13 for a valid sequence; for an invalid byte the 3 bytes of U+FFFD, or
\* the 4 bytes of \xHH that the bytes 0x80..0x9F are written as
RECURSIVE EscapedLength(_, _)
EscapedLength(f, i) ==
    IF i >= Len(f) THEN 0
    ELSE LET n == SeqLenAt(f, i)
         IN  IF n = 0 THEN (IF f[i + 1] \in 128..159 THEN 4 ELSE 3) + EscapedLength(f, i + 1)
             ELSE Len(EscapedValid(SubSeq(f, i + 1, i + n))) + EscapedLength(f, i + n)

\* C16: for every input and capacity fds_string2str fails with the buffer
\* error if and only if the full escaped length and one terminator byte
\* exceed str_size (a generic control byte met with 3 bytes of output left
\* is such a case); otherwise it returns the escaped length n, has written
\* a zero byte at index n, and n + 1 <= str_size.
C16_ExactBufferOutcome ==
    op_str = "fds_string2str" =>
        LET n == EscapedLength(field, 0)
        IN  IF n + 1 > str_size THEN rc_str.rc = FDS_ERR_BUFFER
            ELSE /\ rc_str = [rc |-> FDS_OK, len |-> n]
                 /\ n >= 0
                 /\ n + 1 <= str_size
                 /\ str[n + 1] = 0

\* 'A' has been copied and the control byte 0x1F has found 3 bytes left
C16_Witness ==
    /\ op_str = "fds_string2str"
    /\ field = <<65, 31>>
    /\ str_size = 4
    /\ rc_str.rc = FDS_ERR_BUFFER
    /\ str[1] = 65

\* C17: whenever fds_string2str succeeds and returns n, whatever the input
\* bytes and the capacity, fds_string_utf8check accepts the n bytes of
\* output.
C17_OutputIsValidUtf8 ==
    (op_str = "fds_string2str" /\ rc_str.rc = FDS_OK /\ rc_chk_out # "none") =>
        /\ rc_chk_out = FDS_OK
        /\ \A i \in CharStarts(TextNow, 0) : SeqLenAt(TextNow, i) > 0

\* An input the check refuses has given an output the check accepts
C17_Witness ==
    /\ op_str = "fds_string2str"
    /\ rc_chk = FDS_ERR_ARG
    /\ field = <<226, 255, 191, 191, 191>>
    /\ rc_str.rc = FDS_OK
    /\ rc_chk_out = FDS_OK

\* C18: the escaped text of an input of size bytes has at most 4 * size
\* bytes, so fds_string2str never fails with the buffer error when
\* str_size >= 4 * size + 1.
C18_WorstCaseSize ==
    op_str = "fds_string2str" =>
        /\ EscapedLength(field, 0) <= 4 * size
        /\ rc_str.rc = FDS_OK => rc_str.len <= 4 * size
        /\ str_size >= 4 * size + 1 => rc_str.rc = FDS_OK

\* Two generic control bytes have filled the worst case of 8 bytes
C18_Witness ==
    /\ op_str = "fds_string2str"
    /\ field = <<31, 31>>
    /\ str_size = 4 * size + 1
    /\ rc_str = [rc |-> FDS_OK, len |-> 8]

(***************************************************************************)
(* More properties of the renderers                                        *)
(***************************************************************************)
\* Two uppercase hexadecimal digits per byte, in the order of the bytes
RECURSIVE HexOf(_)
HexOf(f) ==
    IF f = <<>> THEN <<>>
    ELSE <<UpperHex(Head(f) \div 16), UpperHex(Head(f) % 16)>> \o HexOf(Tail(f))

\* C22: fds_octet_array2str fails with the buffer error exactly when
\* str_size < 2 * size + 1; otherwise it returns 2 * size and has written
\* the two uppercase hexadecimal digits of every byte, high nibble first,
\* in wire order and without separators, and a zero byte after them; a
\* field of size 0 gives the empty string and 0 when the capacity is >= 1.
C22_OctetArrayRender ==
    op_str = "fds_octet_array2str" =>
        IF str_size < 2 * size + 1 THEN rc_str.rc = FDS_ERR_BUFFER
        ELSE /\ Returned(2 * size, HexOf(SubSeq(field, 1, size)))
             /\ size = 0 => rc_str.len = 0 /\ str[1] = 0

\* DE AD BE has been rendered into exactly 7 bytes
C22_Witness ==
    /\ op_str = "fds_octet_array2str"
    /\ field = <<222, 173, 190>>
    /\ str_size = 7
    /\ rc_str = [rc |-> FDS_OK, len |-> 6]
    /\ TextNow = <<68, 69, 65, 68, 66, 69>>

\* The size of the field is not one the renderer that has run accepts
BadFieldSize ==
    CASE op_str \in {"fds_uint2str_be", "fds_int2str_be"} -> size = 0 \/ size > 8
      [] op_str = "fds_float2str_be"    -> size \notin {4, 8}
      [] op_str = "fds_mac2str"         -> size # 6
      [] op_str = "fds_ip2str"          -> size \notin {4, 16}
      [] op_str = "fds_datetime2str_be" ->
            size # (IF type = FDS_ET_DATE_TIME_SECONDS THEN 4 ELSE 8)
      [] OTHER -> FALSE

\* C29: with a field size that is invalid for the type, the renderers of
\* integers, floats, MAC addresses, timestamps and IP addresses return the
\* argument error for every capacity, 0 included, and write nothing: the
\* argument error of a bad field comes before the buffer error.
C29_ArgBeforeBuffer ==
    BadFieldSize => Refused(FDS_ERR_ARG)

\* A MAC address of 5 bytes has been refused with no room at all
C29_Witness ==
    /\ op_str = "fds_mac2str"
    /\ size = 5
    /\ str_size = 0
    /\ rc_str.rc = FDS_ERR_ARG

(***************************************************************************)
(* More properties of the string calls                                     *)
(***************************************************************************)
\* f splits from left to right into sequences of 1 to 4 bytes, each a byte
\* 0xxxxxxx or a lead with its continuation bytes inside f
SplitsIntoSequences(f) == \A i \in CharStarts(f, 0) : SeqLenAt(f, i) > 0

\* C24: fds_string_utf8check returns FDS_OK if and only if the input splits
\* from left to right into sequences that are one byte 0xxxxxxx or a lead
\* 110xxxxx, 1110xxxx, 11110xxx followed by exactly 1, 2, 3 bytes 10xxxxxx
\* inside the field, and FDS_ERR_ARG otherwise (a lead cut by the end of the
\* field included); the empty input is accepted.  It agrees with
\* fds_string2str: it accepts exactly the inputs of which fds_string2str
\* replaces no byte as invalid, so that the text is the one of C13.
C24_ValidateOnly ==
    /\ rc_chk # "none" =>
          /\ rc_chk \in {FDS_OK, FDS_ERR_ARG}
          /\ rc_chk = FDS_OK <=> SplitsIntoSequences(field)
          /\ field = <<>> => rc_chk = FDS_OK
    /\ (op_str = "fds_string2str" /\ rc_str.rc = FDS_OK) =>
          (rc_chk = FDS_OK <=> TextNow = EscapedValid(field))

\* A 3-byte lead cut by the end of the field has been refused, and the
\* renderer has replaced it
C24_Witness ==
    /\ field = <<226, 128>>
    /\ rc_chk = FDS_ERR_ARG
    /\ op_str = "fds_string2str"
    /\ rc_str.rc = FDS_OK
    /\ TextNow # EscapedValid(field)

\* The sum of the steps of a scan
RECURSIVE SumOf(_)
SumOf(q) == IF q = <<>> THEN 0 ELSE Head(q) + SumOf(Tail(q))

\* A run over n bytes of input with room for m bytes of output has stayed
\* inside both, its scan has gone on by 1 to 4 bytes at a time and has never
\* passed n, and its loop, if it has ended, has ended at n
InBounds(mem, n, m) ==
    /\ \A i \in mem.reads : 0 <= i /\ i < n
    /\ \A j \in mem.writes : 0 <= j /\ j < m
    /\ \A k \in 1..Len(mem.steps) : mem.steps[k] \in 1..4
    /\ mem.pos = SumOf(mem.steps)
    /\ mem.pos <= n
    /\ mem.ended => mem.pos = n

\* C26: in every run of fds_string2str and of fds_string_utf8check, the
\* runs that end in an error included, every input byte read has an index
\* below size, every output byte written has an index below str_size, the
\* scan goes on by 1 to 4 bytes per iteration, never passes size, and the
\* loop ends with the position equal to size.
C26_MemoryBounds ==
    /\ InBounds(mem_str, size, str_size)
    /\ pc \in {"checked", "rendered"} => InBounds(mem_chk, size, 0)
    /\ pc = "rechecked" => InBounds(mem_chk, rc_str.len, 0)
    /\ (op_str = "fds_string2str" /\ rc_str.rc = FDS_OK) =>
          /\ mem_str.ended
          /\ mem_str.reads = 0..(size - 1)
          /\ mem_str.writes = 0..rc_str.len
    /\ (rc_chk = FDS_OK /\ pc \in {"checked", "rendered"}) =>
          mem_chk.ended /\ mem_chk.reads = 0..(size - 1)

\* A 4-byte character at the end of the field has been read as a whole and
\* copied with its terminator into a buffer of exactly 5 bytes
C26_Witness ==
    /\ op_str = "fds_string2str"
    /\ field = <<240, 191, 191, 191>>
    /\ str_size = 5
    /\ rc_str = [rc |-> FDS_OK, len |-> 4]
    /\ mem_str = [reads |-> 0..3, writes |-> 0..4, steps |-> <<4>>, pos |-> 4, ended |-> TRUE]

\* fds_string2str without its check before the loop
WithoutFastReject == String2StrLoop(field, size, str_size, 0, 0, 0, StrInit(str_size))

\* C27: the escaped length of an input is at least its length, so the
\* check before the loop (size + 1 > str_size gives the buffer error) never
\* refuses an input whose escaped text and terminator would fit, and
\* fds_string2str returns the same with and without that check, for every
\* input and capacity.
C27_FastRejectSound ==
    op_str = "fds_string2str" =>
        /\ EscapedLength(field, 0) >= size
        /\ size + 1 > str_size =>
              /\ rc_str.rc = FDS_ERR_BUFFER
              /\ EscapedLength(field, 0) + 1 > str_size
        /\ rc_str = [rc |-> WithoutFastReject.rc, len |-> WithoutFastReject.len]
        /\ rc_str.rc = FDS_OK => str = WithoutFastReject.str

\* The check before the loop has refused a field of 4 bytes and has read
\* nothing; the loop would have refused it as well
C27_Witness ==
    /\ op_str = "fds_string2str"
    /\ field = <<65, 10, 195, 40>>
    /\ str_size = 4
    /\ rc_str.rc = FDS_ERR_BUFFER
    /\ mem_str = NoAccess
    /\ WithoutFastReject.rc = FDS_ERR_BUFFER

(***************************************************************************)
(* The wire round trip of integers.  A run draws the content of a field    *)
(* and a size, decodes the field with one of the integer getters and, if   *)
(* the getter has succeeded, encodes the decoded value with the setter of  *)
(* the same signedness and the same size into another field.               *)
(***************************************************************************)
InitWire ==
    /\ little \in BOOLEAN
    /\ pc = "start"
    /\ op_set = "none"
    /\ op_get = "none"
    /\ size \in 0..MaxSize
    /\ type = "none"
    /\ field \in IntValues \cup Fills
    /\ in_value = Rep(0, 8)
    /\ field0 = field
    /\ in_ts = NoTs
    /\ rc_set = "none"
    /\ rc_get = "none"
    /\ value = OutInit
    /\ ts = TsInit
    /\ TextIdle

\* The setter named fn has encoded the decoded value and has left r
Reencoded(fn, r) ==
    /\ field' = r.field
    /\ rc_set' = r.rc
    /\ op_set' = fn
    /\ pc' = "reencoded"
    /\ UNCHANGED <<little, op_get, field0, size, type, in_value, in_ts, rc_get, value, ts>>
    /\ UNCHANGED textvars

ReencodeUint ==
    /\ pc = "decoded"
    /\ op_get = "fds_get_uint_be"
    /\ rc_get = FDS_OK
    /\ \E fill \in Fills : Reencoded("fds_set_uint_be", fds_set_uint_be(fill, size, value))

ReencodeInt ==
    /\ pc = "decoded"
    /\ op_get = "fds_get_int_be"
    /\ rc_get = FDS_OK
    /\ \E fill \in Fills : Reencoded("fds_set_int_be", fds_set_int_be(fill, size, value))

NextWire == GetUint \/ GetInt \/ ReencodeUint \/ ReencodeInt

SpecWire == InitWire /\ [][NextWire]_vars

\* C30: for every size s in 1..8 and every content b of s bytes, the getter
\* succeeds, the unsigned result is in 0 .. 2^(8s) - 1 and the signed one
\* in -2^(8s-1) .. 2^(8s-1) - 1, the two are congruent modulo 2^(8s) (their
\* low s bytes are the same), and the setter of the same signedness and
\* size, given the result, returns FDS_OK, never FDS_ERR_TRUNC, and writes
\* exactly the bytes b.
C30_WireRoundTrip ==
    size \in 1..8 =>
        /\ op_get = "fds_get_uint_be" =>
              /\ rc_get = FDS_OK
              /\ ULe(value, UMaxOf(size))
              /\ Trunc(value, size) = Trunc(fds_get_int_be(field0, size, OutInit).value, size)
        /\ op_get = "fds_get_int_be" =>
              /\ rc_get = FDS_OK
              /\ SLe(SMinOf(size), value) /\ SLe(value, SMaxOf(size))
              /\ Trunc(value, size) = Trunc(fds_get_uint_be(field0, size, OutInit).value, size)
        /\ pc = "reencoded" =>
              /\ rc_set = FDS_OK
              /\ SubSeq(field, 1, size) = SubSeq(field0, 1, size)

\* The 3 bytes 81 82 83, which are a negative number, have been decoded
\* and written back over other bytes
C30_Witness ==
    /\ pc = "reencoded"
    /\ op_set = "fds_set_int_be"
    /\ size = 3
    /\ SubSeq(field0, 1, 3) = <<129, 130, 131>>
    /\ value = <<255, 255, 255, 255, 255, 129, 130, 131>>
    /\ field # field0
    /\ rc_set = FDS_OK
    /\ SubSeq(field, 1, 3) = <<129, 130, 131>>

\* Values of the low 11 bits of a fraction
LowBitsSamples == {0, 1, 682, 1024, 1365, 2047}

\* The 8-byte field f with the low 11 bits of its fraction replaced by low
WithLowBits(f, low) ==
    SubSeq(f, 1, 6) \o <<(f[7] \div 8) * 8 + (low \div 256), low % 256>>

\* C25: with FDS_ET_DATE_TIME_MICROSECONDS fds_set_datetime_lp_be and
\* fds_set_datetime_hp_be always write a fraction whose low 11 bits are 0,
\* and fds_get_datetime_lp_be and fds_get_datetime_hp_be ignore the low 11
\* bits of the fraction: 8-byte fields that differ only in those bits
\* decode to the same value.
C25_MicroFractionMask ==
    (type = FDS_ET_DATE_TIME_MICROSECONDS /\ size = 8) =>
        /\ op_set \in TimeSetters =>
              /\ rc_set = FDS_OK
              /\ field[8] = 0
              /\ field[7] % 8 = 0
        /\ op_get = "fds_get_datetime_lp_be" =>
              /\ rc_get = FDS_OK
              /\ \A low \in LowBitsSamples :
                    fds_get_datetime_lp_be(WithLowBits(field, low), size, type, OutInit).value
                        = value
        /\ op_get = "fds_get_datetime_hp_be" =>
              /\ rc_get = FDS_OK
              /\ \A low \in LowBitsSamples :
                    fds_get_datetime_hp_be(WithLowBits(field, low), size, type, TsInit).ts = ts

\* 999999999 ns have been written as the fraction FFFFF800 and read back
\* as 999999523 ns, as the field with the fraction FFFFFFFF is
C25_Witness ==
    /\ HpRoundTrip(FDS_ET_DATE_TIME_MICROSECONDS)
    /\ in_ts.tv_nsec = FromInt(999999999, 8)
    /\ SubSeq(field, 5, 8) = <<255, 255, 248, 0>>
    /\ ts.tv_nsec = FromInt(999999523, 8)
    /\ WithLowBits(field, 2047) # field
    /\ fds_get_datetime_hp_be(WithLowBits(field, 2047), 8, type, TsInit).ts = ts

\* A high precision result truncated to milliseconds: tv_sec * 1000 + tv_nsec div 1000000
TruncatedToMs(t) == Add(Mul(t.tv_sec, FromInt(S1E3, 8)), Div(t.tv_nsec, S1E6))

\* The fields the two decoders are compared on: a timestamp field of its
\* size and, for the two NTP types, seconds of at least 2208988800
AfterUnixEpoch ==
    /\ ValidTime
    /\ type \in {FDS_ET_DATE_TIME_MICROSECONDS, FDS_ET_DATE_TIME_NANOSECONDS}
          => ULe(FDS_CONVERT_EPOCHS_DIFF, ZExt(SubSeq(field, 1, 4), 8))

\* The two decoders agree on the field of the state
DecodersAgree ==
    /\ op_get = "fds_get_datetime_lp_be" =>
          /\ rc_get = FDS_OK
          /\ value = TruncatedToMs(fds_get_datetime_hp_be(field, size, type, TsInit).ts)
    /\ op_get = "fds_get_datetime_hp_be" =>
          /\ rc_get = FDS_OK
          /\ fds_get_datetime_lp_be(field, size, type, OutInit).value = TruncatedToMs(ts)

\* C28: for every 8-byte MICROSECONDS or NANOSECONDS field whose NTP seconds
\* are at least 2208988800, and for every SECONDS and MILLISECONDS field of
\* its size, the result of fds_get_datetime_lp_be is the result of
\* fds_get_datetime_hp_be truncated to milliseconds, tv_sec * 1000 +
\* tv_nsec div 1000000.
C28_DecodersConsistent == AfterUnixEpoch => DecodersAgree

\* The same statement without the NANOSECONDS fields
C28_ExceptNano ==
    (AfterUnixEpoch /\ type # FDS_ET_DATE_TIME_NANOSECONDS) => DecodersAgree

(***************************************************************************)
(* Octet arrays and strings: fds_set_octet_array, fds_set_string,          *)
(* fds_get_octet_array and fds_get_string.  The field, the value given to  *)
(* a setter and the buffer given to a getter are arrays of MaxBytes bytes; *)
(* memcpy(dst, src, n) copies the first n bytes and leaves the others.     *)
(***************************************************************************)
MaxBytes == 3

memcpy(dst, src, n) == Store(dst, SubSeq(src, 1, n))

fds_set_octet_arrayAnySize(f, sz, v) == [rc |-> FDS_OK, field |-> memcpy(f, v, sz)]

fds_set_octet_array(f, sz, v) ==
    IF sz = 0 THEN [rc |-> FDS_ERR_ARG, field |-> f]
    ELSE [rc |-> FDS_OK, field |-> memcpy(f, v, sz)]

fds_set_string(f, sz, v) ==
    IF sz = 0 THEN [rc |-> FDS_ERR_ARG, field |-> f]
    ELSE [rc |-> FDS_OK, field |-> memcpy(f, v, sz)]

fds_get_octet_array(f, sz, old) == [rc |-> FDS_OK, value |-> memcpy(old, f, sz)]

fds_get_string(f, sz, old) == [rc |-> FDS_OK, value |-> memcpy(old, f, sz)]

\* Bytes of the arrays: NUL, a letter, a lone continuation byte and FF,
\* which no UTF-8 text holds
ArrayBytes == {0, 65, 128, 255}

Arrays == {AsSeq(a) : a \in [1..MaxBytes -> ArrayBytes]}

\* The field before a setter runs
ArrayFills == {Rep(165, MaxBytes), AsSeq([i \in 1..MaxBytes |-> 17 * i]), Rep(128, MaxBytes)}

InitBytes ==
    /\ little \in BOOLEAN
    /\ pc = "start"
    /\ op_set = "none"
    /\ op_get = "none"
    /\ size \in 0..MaxBytes
    /\ type = "none"
    /\ field \in ArrayFills
    /\ in_value \in Arrays
    /\ field0 = field
    /\ in_ts = NoTs
    /\ rc_set = "none"
    /\ rc_get = "none"
    /\ value = Rep(165, MaxBytes)
    /\ ts = TsInit
    /\ TextIdle

\* The setter named fn has run and has left r
ArraySet(fn, r) ==
    /\ pc = "start"
    /\ field' = r.field
    /\ rc_set' = r.rc
    /\ op_set' = fn
    /\ pc' = "encoded"
    /\ UNCHANGED <<little, op_get, field0, size, type, in_value, in_ts, rc_get, value, ts>>
    /\ UNCHANGED textvars

\* The getter named fn has run and has left r
ArrayGot(fn, r) ==
    /\ pc \in {"start", "encoded"}
    /\ value' = r.value
    /\ rc_get' = r.rc
    /\ op_get' = fn
    /\ pc' = "decoded"
    /\ UNCHANGED <<little, op_set, field, field0, size, type, in_value, in_ts, rc_set, ts>>
    /\ UNCHANGED textvars

SetOctetArray == ArraySet("fds_set_octet_array", fds_set_octet_array(field, size, in_value))

SetString == ArraySet("fds_set_string", fds_set_string(field, size, in_value))

GetOctetArray == ArrayGot("fds_get_octet_array", fds_get_octet_array(field, size, value))

GetString == ArrayGot("fds_get_string", fds_get_string(field, size, value))

NextBytes == SetOctetArray \/ SetString \/ GetOctetArray \/ GetString

SpecBytes == InitBytes /\ [][NextBytes]_vars

ArraySetters == {"fds_set_octet_array", "fds_set_string"}

ArrayGetters == {"fds_get_octet_array", "fds_get_string"}

\* Exactly the first n bytes of the array now are those of from, and the
\* others are those of before
CopiedExactly(now, from, before, n) ==
    /\ SubSeq(now, 1, n) = SubSeq(from, 1, n)
    /\ SubSeq(now, n + 1, Len(now)) = SubSeq(before, n + 1, Len(before))

\* C23: fds_get_octet_array and fds_get_string return FDS_OK for every
\* size, 0 too, and copy exactly size bytes as they are; fds_set_octet_array
\* and fds_set_string return FDS_ERR_ARG for size 0 and leave the field
\* unchanged, and for a size above 0 copy exactly size bytes as they are,
\* so that a following get returns the same bytes; neither validates UTF-8
\* (bytes that are no UTF-8 text are copied like any others).
C23_ArrayCodec ==
    /\ op_get \in ArrayGetters =>
          /\ rc_get = FDS_OK
          /\ CopiedExactly(value, field, Rep(165, MaxBytes), size)
    /\ op_set \in ArraySetters =>
          IF size = 0
          THEN rc_set = FDS_ERR_ARG /\ field = field0
          ELSE /\ rc_set = FDS_OK
               /\ CopiedExactly(field, in_value, field0, size)
               /\ op_get \in ArrayGetters =>
                     SubSeq(value, 1, size) = SubSeq(in_value, 1, size)

\* Two bytes that are no UTF-8 text have been stored as a string and read
\* back; the third byte of the field and of the output have been left
C23_Witness ==
    /\ op_set = "fds_set_string"
    /\ op_get = "fds_get_string"
    /\ size = 2
    /\ SubSeq(in_value, 1, 2) = <<255, 128>>
    /\ in_value[3] = 65
    /\ field0 = Rep(165, MaxBytes)
    /\ rc_set = FDS_OK
    /\ rc_get = FDS_OK
    /\ SubSeq(field, 1, 3) = <<255, 128, 165>>
    /\ SubSeq(value, 1, 3) = <<255, 128, 165>>

(***************************************************************************)
(* Floating point numbers: fds_set_float_be.  A double is the 8 bytes of   *)
(* its IEEE 754 binary64 encoding, a float the 4 bytes of its binary32     *)
(* encoding, each with the sign and exponent first.                        *)
(***************************************************************************)
\* The parts of a double: sign, biased exponent (0..2047), 52-bit fraction
DblNegative(v) == v.bits[1] >= 128

DblExponent(v) == (v.bits[1] % 128) * 16 + (v.bits[2] \div 16)

DblFraction(v) == <<0, v.bits[2] % 16>> \o SubSeq(v.bits, 3, 8)

isnormalAlways(v) == TRUE

\* isnormal(value): neither zero, subnormal, infinite nor NaN
isnormal(v) == DblExponent(v) \notin {0, 2047}

\* a < b of two doubles; a comparison with a NaN is false, -0 equals +0
DblLess(a, b) ==
    IF isnan(a) \/ isnan(b) THEN FALSE
    ELSE IF DblExponent(a) = 0 /\ MantissaZero(a) /\ DblExponent(b) = 0 /\ MantissaZero(b)
    THEN FALSE
    ELSE IF DblNegative(a) # DblNegative(b) THEN DblNegative(a)
    ELSE IF DblNegative(a) THEN ULt(b.bits, a.bits)
    ELSE ULt(a.bits, b.bits)

\* FLT_MAX and -FLT_MAX of <float.h>, (2 - 2^-23) * 2^127, as doubles
FLT_MAX == [width |-> 8, bits |-> <<71, 239, 255, 255, 224, 0, 0, 0>>]

NegFLT_MAX == [width |-> 8, bits |-> <<199, 239, 255, 255, 224, 0, 0, 0>>]

\* x / 2^sh rounded to the nearest, a tie to the even one, 1 <= sh <= 63
RoundShift(x, sh) ==
    LET q == Shr(x, sh)
        rem == Sub(x, Shl(q, sh))
        half == Shl(One64, sh - 1)
    IN  IF ULt(half, rem) \/ (rem = half /\ q[8] % 2 = 1) THEN Add(q, One64) ELSE q

\* The float of the sign and of the bits mag below 2^31
FloatOf(negative, mag) ==
    LET b == FromInt(mag, 4)
    IN  [width |-> 4, bits |-> IF negative THEN <<b[1] + 128>> \o SubSeq(b, 2, 4) ELSE b]

\* (float) value in the default rounding mode, to nearest: a NaN stays a
\* NaN (quiet, with the high bits of its payload), an infinity stays one,
\* a number beyond the floats becomes an infinity, a number below the
\* normal floats becomes a subnormal float or zero
FloatCast(v) ==
    LET e == DblExponent(v)
        fe == e - 1023 + 127
        m == Add(DblFraction(v), Shl(One64, 52))
    IN  IF e = 2047
        THEN IF isnan(v)
             THEN FloatOf(DblNegative(v),
                          2143289344 + (ToInt(Shr(DblFraction(v), 29)) % 4194304))
             ELSE FloatOf(DblNegative(v), 2139095040)
        ELSE IF e = 0 THEN FloatOf(DblNegative(v), 0)
        ELSE IF fe >= 255 THEN FloatOf(DblNegative(v), 2139095040)
        ELSE IF fe >= 1
             THEN LET bits == (fe - 1) * 8388608 + ToInt(RoundShift(m, 29))
                  IN  FloatOf(DblNegative(v), bits)
        ELSE IF 30 - fe > 54 THEN FloatOf(DblNegative(v), 0)
        ELSE FloatOf(DblNegative(v), ToInt(RoundShift(m, 30 - fe)))

fds_set_float_be(f, sz, v) ==
    IF sz = 8 THEN [rc |-> FDS_OK, field |-> Store(f, MemOf(htobe64(v.bits)))]
    ELSE IF sz = 4
         THEN IF DblLess(v, NegFLT_MAX) /\ isnormal(v)
              THEN [rc |-> FDS_ERR_TRUNC,
                    field |-> Store(f, MemOf(htonl(FloatCast(NegFLT_MAX).bits)))]
              ELSE IF DblLess(FLT_MAX, v) /\ isnormal(v)
              THEN [rc |-> FDS_ERR_TRUNC,
                    field |-> Store(f, MemOf(htonl(FloatCast(FLT_MAX).bits)))]
              ELSE [rc |-> FDS_OK, field |-> Store(f, MemOf(htonl(FloatCast(v).bits)))]
    ELSE [rc |-> FDS_ERR_ARG, field |-> f]

\* Doubles given to the setter
DoubleSamples ==
    {<<0, 0, 0, 0, 0, 0, 0, 0>>,   \* 0
     <<128, 0, 0, 0, 0, 0, 0, 0>>,   \* -0
     <<63, 240, 0, 0, 0, 0, 0, 0>>,   \* 1
     <<192, 4, 0, 0, 0, 0, 0, 0>>,   \* -2.5
     <<63, 185, 153, 153, 153, 153, 153, 154>>,   \* 0.1
     <<65, 157, 111, 52, 84, 128, 0, 0>>,   \* 123456789.125
     <<71, 239, 255, 255, 224, 0, 0, 0>>,   \* FLT_MAX
     <<199, 239, 255, 255, 224, 0, 0, 0>>,   \* -FLT_MAX
     <<71, 239, 255, 255, 224, 0, 0, 1>>,   \* the double after FLT_MAX
     <<199, 239, 255, 255, 224, 0, 0, 1>>,   \* the double before -FLT_MAX
     <<71, 239, 255, 255, 223, 255, 255, 255>>,   \* the double before FLT_MAX
     <<71, 239, 255, 255, 240, 0, 0, 0>>,   \* half way from FLT_MAX to 2^128
     <<71, 240, 0, 0, 0, 0, 0, 0>>,   \* 2^128
     <<199, 240, 0, 0, 0, 0, 0, 0>>,   \* -2^128
     <<127, 239, 255, 255, 255, 255, 255, 255>>,   \* DBL_MAX
     <<255, 239, 255, 255, 255, 255, 255, 255>>,   \* -DBL_MAX
     <<127, 240, 0, 0, 0, 0, 0, 0>>,   \* infinity
     <<255, 240, 0, 0, 0, 0, 0, 0>>,   \* -infinity
     <<127, 248, 0, 0, 0, 0, 0, 0>>,   \* NaN
     <<255, 248, 0, 0, 0, 0, 0, 0>>,   \* -NaN
     <<127, 240, 0, 0, 0, 0, 0, 1>>,   \* a signalling NaN
     <<127, 252, 0, 0, 32, 0, 0, 0>>,   \* a NaN with a payload
     <<56, 16, 0, 0, 0, 0, 0, 0>>,   \* FLT_MIN, 2^-126
     <<56, 15, 255, 255, 255, 255, 255, 255>>,   \* the double before FLT_MIN
     <<55, 48, 0, 0, 0, 0, 0, 0>>,   \* 2^-140, a subnormal float
     <<54, 160, 0, 0, 0, 0, 0, 0>>,   \* 2^-149, the least float
     <<54, 144, 0, 0, 0, 0, 0, 0>>,   \* 2^-150, half of the least float
     <<54, 144, 0, 0, 0, 0, 0, 1>>,   \* the double after 2^-150
     <<49, 144, 0, 0, 0, 0, 0, 0>>,   \* 2^-230
     <<0, 0, 0, 0, 0, 0, 0, 1>>,   \* the least double
     <<0, 16, 0, 0, 0, 0, 0, 0>>,   \* DBL_MIN
     <<63, 240, 0, 0, 16, 0, 0, 0>>,   \* 1 + 2^-24, a tie
     <<63, 240, 0, 0, 48, 0, 0, 0>>,   \* 1 + 3 * 2^-24, a tie
     <<63, 255, 255, 255, 240, 0, 0, 0>>}   \* the double before 2 - 2^-25

InitFloat ==
    /\ little \in BOOLEAN
    /\ pc = "start"
    /\ op_set = "none"
    /\ op_get = "none"
    /\ size \in 0..MaxSize
    /\ type = "none"
    /\ field \in Fills
    /\ in_value \in DoubleSamples
    /\ field0 = field
    /\ in_ts = NoTs
    /\ rc_set = "none"
    /\ rc_get = "none"
    /\ value = OutInit
    /\ ts = TsInit
    /\ TextIdle

SetFloat ==
    /\ pc = "start"
    /\ LET r == fds_set_float_be(field, size, [width |-> 8, bits |-> in_value])
       IN  /\ field' = r.field
           /\ rc_set' = r.rc
    /\ op_set' = "fds_set_float_be"
    /\ pc' = "encoded"
    /\ UNCHANGED <<little, op_get, field0, size, type, in_value, in_ts, rc_get, value, ts>>
    /\ UNCHANGED textvars

NextFloat == SetFloat

SpecFloat == InitFloat /\ [][NextFloat]_vars

\* The bytes b of a double are those of a finite number above FLT_MAX in
\* magnitude: the exponent is not all ones and the bytes without the sign
\* are above those of FLT_MAX, 47 EF FF FF E0 00 00 00
ExceedsFltMax(b) ==
    /\ ~(b[1] % 128 = 127 /\ b[2] \div 16 = 15)
    /\ ULt(<<71, 239, 255, 255, 224, 0, 0, 0>>, <<b[1] % 128>> \o SubSeq(b, 2, 8))

\* The bytes of a double that is a NaN, an infinity
DoubleNaN(b) ==
    /\ b[1] % 128 = 127 /\ b[2] \div 16 = 15
    /\ <<b[2] % 16>> \o SubSeq(b, 3, 8) # Rep(0, 7)

DoubleInf(b) ==
    /\ b[1] % 128 = 127 /\ b[2] \div 16 = 15
    /\ <<b[2] % 16>> \o SubSeq(b, 3, 8) = Rep(0, 7)

\* The 4 bytes of a float that is a NaN
FloatNaN(b) ==
    /\ b[1] % 128 = 127 /\ b[2] >= 128
    /\ <<b[2] % 128, b[3], b[4]>> # <<0, 0, 0>>

\* C21: fds_set_float_be with size 8 stores the value unchanged and returns
\* FDS_OK; with size 4 it returns FDS_ERR_TRUNC exactly when the value is
\* finite and above FLT_MAX in magnitude, and then stores FLT_MAX with the
\* sign of the value; for every other value it returns FDS_OK, and a NaN
\* is stored as a NaN and an infinity as the infinity of its sign; with any
\* other size it returns FDS_ERR_ARG and leaves the field unchanged.
C21_FloatEncode ==
    op_set = "fds_set_float_be" =>
        CASE size = 8 -> rc_set = FDS_OK /\ SubSeq(field, 1, 8) = in_value
          [] size = 4 ->
                /\ rc_set = FDS_ERR_TRUNC <=> ExceedsFltMax(in_value)
                /\ rc_set \in {FDS_ERR_TRUNC, FDS_OK}
                /\ ExceedsFltMax(in_value) =>
                      SubSeq(field, 1, 4) =
                          <<(IF in_value[1] >= 128 THEN 255 ELSE 127), 127, 255, 255>>
                /\ DoubleNaN(in_value) => FloatNaN(SubSeq(field, 1, 4))
                /\ DoubleInf(in_value) =>
                      SubSeq(field, 1, 4) =
                          <<(IF in_value[1] >= 128 THEN 255 ELSE 127), 128, 0, 0>>
          [] OTHER -> rc_set = FDS_ERR_ARG /\ field = field0

\* The double before -FLT_MAX has been stored in 4 bytes as -FLT_MAX
C21_Witness ==
    /\ op_set = "fds_set_float_be"
    /\ size = 4
    /\ in_value = <<199, 239, 255, 255, 224, 0, 0, 1>>
    /\ rc_set = FDS_ERR_TRUNC
    /\ SubSeq(field, 1, 4) = <<255, 127, 255, 255>>
    /\ SubSeq(field, 5, 8) = SubSeq(field0, 5, 8)

====
